---- MODULE Spec2Model ----
(***************************************************************************)
(* A model of pylstar: the observation table, the knowledge base with its *)
(* knowledge tree, hypothesis extraction, the Wp-method equivalence test   *)
(* and the LSTAR learner loop.                                             *)
(*                                                                         *)
(* Letters are strings.  A Word is the sequence of its letters.  An        *)
(* operation of the program is an operator from a program state m (a       *)
(* record of the fields of the observation table and of the knowledge      *)
(* base, with the pending exception in m.exc) to the program state after   *)
(* it; a raised exception skips the rest of the operation, as in Python.   *)
(***************************************************************************)
EXTENDS Integers, Sequences, FiniteSets, TLC

\* ------------------------------------------------------------------------
\* Letter.py, Word.py
\* ------------------------------------------------------------------------

\* Python's None
None == "None"

\* EmptyLetter(): the letter whose set of symbols is empty
EmptyLetter == "EmptyLetter"

VARIABLES
    input_letters,    \* ObservationTable.input_letters, LSTAR.input_letters (a list)
    max_states,       \* LSTAR.max_states, WpMethodEQ.max_states
    teacher,          \* the knowledge base's teacher: [automata, faulty]
    initialized,      \* ObservationTable.initialized
    D,                \* ObservationTable.D
    S,                \* ObservationTable.S
    SA,               \* ObservationTable.SA
    ot_content,       \* ObservationTable.ot_content
    nodes,            \* KnowledgeBase.knowledge_tree
    trace,            \* the calls made to the teacher, in order
    exc,              \* the exception the last operation ended with, or NoExc
    op,               \* the last operation and its arguments
    hypothesis,       \* the automaton the last build_hypothesis returned
    counterexample,   \* the counterexample of LSTAR.learn
    pc,               \* where LSTAR.learn stands
    nops              \* the number of operations performed

vars == <<input_letters, max_states, teacher, initialized, D, S, SA, ot_content,
          nodes, trace, exc, op, hypothesis, counterexample, pc, nops>>

\* the set of the input letters
InputLetterSet == {input_letters[i] : i \in 1..Len(input_letters)}

\* no exception pending
NoExc == "ok"

\* Letter.__str__ (EmptyLetter.__str__ for the empty letter)
LetterStr(l) ==
    IF l = EmptyLetter THEN "EmptyLetter"
    ELSE IF l = None THEN "None"
    ELSE "Letter(" \o l \o ")"

\* Word.letters setter: one leading EmptyLetter is dropped when the word has
\* more than one letter
Word(letters) ==
    IF Len(letters) > 1 /\ letters[1] = EmptyLetter THEN Tail(letters) ELSE letters

\* Word.__add__
WordAdd(u, v) ==
    IF Len(u) >= 1 /\ u[1] = EmptyLetter THEN Word(Tail(u) \o v) ELSE Word(u \o v)

\* a mutant of Word.last_letter: the first letter of the word
last_letter_first(w) == w[1]

\* Word.last_letter
last_letter(w) == w[Len(w)]

\* Word([EmptyLetter()])
EmptyWord == Word(<<EmptyLetter>>)

\* ------------------------------------------------------------------------
\* automata/State.py, automata/Automata.py
\* An automaton is [initial_state, transitions], transitions[q] being the
\* list State.transitions of state q; a transition is
\* [input_letter, output_letter, output_state].
\* ------------------------------------------------------------------------

\* State.visit: the first transition of the state triggered by the letter,
\* 0 when there is none (the method raises)
VisitIndex(automata, q, letter) ==
    LET ts == automata.transitions[q]
        hits == {i \in 1..Len(ts) : ts[i].input_letter = letter}
    IN IF hits = {} THEN 0 ELSE CHOOSE i \in hits : \A j \in hits : i <= j

RECURSIVE PlayLetters(_, _, _, _, _)
\* the loop of Automata.play_word; exc is set when State.visit raises
PlayLetters(automata, q, letters, outs, visited) ==
    IF letters = << >> THEN [exc |-> NoExc, output_word |-> Word(outs), visited_states |-> visited]
    ELSE LET i == VisitIndex(automata, q, letters[1])
         IN IF i = 0
            THEN [exc |-> "NoTransition", output_word |-> Word(outs), visited_states |-> visited]
            ELSE LET t == automata.transitions[q][i]
                 IN PlayLetters(automata, t.output_state, Tail(letters),
                                Append(outs, t.output_letter), Append(visited, t.output_state))

\* Automata.play_word
play_word(automata, input_word, starting_state) ==
    IF Len(input_word) = 0
    THEN [exc |-> "EmptyInput", output_word |-> << >>, visited_states |-> << >>]
    ELSE PlayLetters(automata, starting_state, input_word, << >>, << >>)

\* Automata.play_query
play_query(automata, input_word) == play_word(automata, input_word, automata.initial_state)

\* ------------------------------------------------------------------------
\* FakeActiveKnowledgeBase.py: the teacher
\* ------------------------------------------------------------------------

RECURSIVE SubmitLetters(_, _, _, _)
\* the loop of FakeActiveKnowledgeBase.submit_word over _next_state: a letter
\* without transition is answered by EmptyLetter and the state is kept
SubmitLetters(automata, q, letters, outs) ==
    IF letters = << >> THEN outs
    ELSE LET i == VisitIndex(automata, q, letters[1])
         IN IF i = 0
            THEN SubmitLetters(automata, q, Tail(letters), Append(outs, EmptyLetter))
            ELSE LET t == automata.transitions[q][i]
                 IN SubmitLetters(automata, t.output_state, Tail(letters),
                                  Append(outs, t.output_letter))

\* FakeActiveKnowledgeBase.submit_word
submit_word(automata, word) == Word(SubmitLetters(automata, automata.initial_state, word, << >>))

\* ------------------------------------------------------------------------
\* KnowledgeTree.py
\* The tree is the sequence of its nodes in creation order; a node is
\* [parent, input_letter, output_letter], parent 0 for a root.  The children
\* of a node, and the roots, are in creation order, as the Python lists are.
\* ------------------------------------------------------------------------

\* node.children (parent 0: KnowledgeTree.roots), as the set of node indexes
Children(tree, n) == {i \in 1..Len(tree) : tree[i].parent = n}

\* the first of the children of n whose input letter is the given one, else 0
FirstChild(tree, n, letter) ==
    LET hits == {i \in Children(tree, n) : tree[i].input_letter = letter}
    IN IF hits = {} THEN 0 ELSE CHOOSE i \in hits : \A j \in hits : i <= j

\* Python's None where the program expects a Word
NoWord == <<None>>

\* Python's None where the program expects a counterexample, which is an
\* OutputQuery with its input word and its output word
NoCounterexample == [input_word |-> NoWord, output_word |-> NoWord]

RECURSIVE TraverseGet(_, _, _)
\* KnowledgeNode.traverse without output letters: the output letters on the
\* path, or NoWord when the method raises
TraverseGet(tree, n, letters) ==
    IF letters[1] # tree[n].input_letter THEN NoWord
    ELSE IF Len(letters) < 2 THEN <<tree[n].output_letter>>
    ELSE LET c == FirstChild(tree, n, letters[2])
         IN IF c = 0 THEN NoWord
            ELSE LET rest == TraverseGet(tree, c, Tail(letters))
                 IN IF rest = NoWord THEN NoWord
                    ELSE <<tree[n].output_letter>> \o rest

RECURSIVE GetFromRoots(_, _, _)
\* the loop of KnowledgeTree.get_output_word over the roots
GetFromRoots(tree, roots, input_word) ==
    IF roots = << >> THEN NoWord
    ELSE LET r == IF Len(input_word) = 0 THEN NoWord
                  ELSE TraverseGet(tree, roots[1], input_word)
         IN IF r # NoWord THEN Word(r) ELSE GetFromRoots(tree, Tail(roots), input_word)

\* a set of node indexes as the increasing sequence
RECURSIVE SortedSeq(_)
SortedSeq(s) ==
    IF s = {} THEN << >>
    ELSE LET x == CHOOSE i \in s : \A j \in s : i <= j
         IN <<x>> \o SortedSeq(s \ {x})

\* KnowledgeTree.get_output_word: NoWord when "No path found" is raised
get_output_word(tree, input_word) ==
    GetFromRoots(tree, SortedSeq(Children(tree, 0)), input_word)

RECURSIVE TraverseAdd_keeps_partial(_, _, _, _)
\* a mutant of KnowledgeNode.traverse with output letters: the child is
\* created before its output letter is compared with the one of the path
TraverseAdd_keeps_partial(tree, n, ins, outs) ==
    IF ins[1] # tree[n].input_letter THEN [nodes |-> tree, exc |-> "CannotTraverse"]
    ELSE IF outs[1] # tree[n].output_letter THEN [nodes |-> tree, exc |-> "CannotTraverse"]
    ELSE IF Len(ins) # Len(outs) THEN [nodes |-> tree, exc |-> "LengthMismatch"]
    ELSE IF Len(ins) < 2 THEN [nodes |-> tree, exc |-> NoExc]
    ELSE LET c == FirstChild(tree, n, ins[2])
             new_children == [parent |-> n, input_letter |-> ins[2],
                              output_letter |-> outs[2]]
             grown == Append(tree, new_children)
         IN IF c # 0
            THEN IF tree[c].output_letter # outs[2]
                 THEN [nodes |-> grown, exc |-> "IncompatiblePath"]
                 ELSE TraverseAdd_keeps_partial(tree, c, Tail(ins), Tail(outs))
            ELSE TraverseAdd_keeps_partial(grown, Len(grown), Tail(ins), Tail(outs))

RECURSIVE TraverseAdd(_, _, _, _)
\* KnowledgeNode.traverse with output letters: [tree, exc]
TraverseAdd(tree, n, ins, outs) ==
    IF ins[1] # tree[n].input_letter THEN [nodes |-> tree, exc |-> "CannotTraverse"]
    ELSE IF outs[1] # tree[n].output_letter THEN [nodes |-> tree, exc |-> "CannotTraverse"]
    ELSE IF Len(ins) # Len(outs) THEN [nodes |-> tree, exc |-> "LengthMismatch"]
    ELSE IF Len(ins) < 2 THEN [nodes |-> tree, exc |-> NoExc]
    ELSE LET c == FirstChild(tree, n, ins[2])
         IN IF c # 0
            THEN IF tree[c].output_letter # outs[2]
                 THEN [nodes |-> tree, exc |-> "IncompatiblePath"]
                 ELSE TraverseAdd(tree, c, Tail(ins), Tail(outs))
            ELSE LET new_children == [parent |-> n, input_letter |-> ins[2],
                                      output_letter |-> outs[2]]
                     grown == Append(tree, new_children)
                 IN TraverseAdd(grown, Len(grown), Tail(ins), Tail(outs))

\* KnowledgeTree.__add_letters
add_letters(tree, ins, outs) ==
    LET same == {i \in Children(tree, 0) : tree[i].input_letter = ins[1]}
        first == IF same = {} THEN 0 ELSE CHOOSE i \in same : \A j \in same : i <= j
    IN IF first # 0 /\ tree[first].output_letter # outs[1]
       THEN [nodes |-> tree, exc |-> "IncompatiblePath"]
       ELSE IF first # 0
       THEN TraverseAdd(tree, first, ins, outs)
       ELSE LET grown == Append(tree, [parent |-> 0, input_letter |-> ins[1],
                                        output_letter |-> outs[1]])
            IN TraverseAdd(grown, Len(grown), ins, outs)

\* KnowledgeTree.add_word
add_word(tree, input_word, output_word) ==
    IF Len(input_word) # Len(output_word)
    THEN [nodes |-> tree, exc |-> "LengthMismatch"]
    ELSE IF Len(input_word) = 0
    THEN [nodes |-> tree, exc |-> "IndexError"]
    ELSE add_letters(tree, input_word, output_word)

\* ------------------------------------------------------------------------
\* KnowledgeBase.py, ActiveKnowledgeBase.py
\* A teacher tch is [automata, faulty]: the automaton FakeActiveKnowledgeBase
\* answers from, and the input words on which submit_word raises.
\* m.trace is the sequence of calls made to the tch.
\* ------------------------------------------------------------------------

\* a mutant of _execute_word: stop_target is called after submit_word
\* returns, without finally clause
execute_word_stop_after_return(tch, m, word) ==
    LET started == Append(m.trace, <<"start_target">>)
        submitted == Append(started, <<"submit_word", word>>)
        stopped == Append(submitted, <<"stop_target">>)
    IN IF word \in tch.faulty
       THEN [m EXCEPT !.trace = submitted, !.exc = "TeacherFailure", !.out = NoWord]
       ELSE [m EXCEPT !.trace = stopped, !.out = submit_word(tch.automata, word)]

\* ActiveKnowledgeBase._execute_word: start_target, submit_word, and
\* stop_target in the finally clause
execute_word(tch, m, word) ==
    LET started == Append(m.trace, <<"start_target">>)
        submitted == Append(started, <<"submit_word", word>>)
        stopped == Append(submitted, <<"stop_target">>)
    IN IF word \in tch.faulty
       THEN [m EXCEPT !.trace = stopped, !.exc = "TeacherFailure", !.out = NoWord]
       ELSE [m EXCEPT !.trace = stopped, !.out = submit_word(tch.automata, word)]

\* _resolve_word: the end of self.knowledge_tree.add_word(word, output),
\* whose result is added, in the program state e that _execute_word left
AddedWord(e, added) ==
    IF added.exc # NoExc
    THEN [e EXCEPT !.nodes = added.nodes, !.exc = added.exc, !.out = NoWord]
    ELSE [e EXCEPT !.nodes = added.nodes]

\* a mutant of _resolve_word: the output word is not added to the tree
ExecutedWord_not_added(e, word) == e

\* _resolve_word after self._execute_word(word), which left the program
\* state e: the output word is added to the knowledge tree
ExecutedWord(e, word) ==
    IF e.exc # NoExc THEN e ELSE AddedWord(e, add_word(e.nodes, word, e.out))

\* a mutant of _resolve_word: the word found in the tree is not used, the
\* word is executed every time
LookedUp_always_executed(tch, m, word, cached) ==
    ExecutedWord(execute_word(tch, m, word), word)

\* _resolve_word after self.knowledge_tree.get_output_word(word): cached
\* is the word found, NoWord when the lookup raised
LookedUp(tch, m, word, cached) ==
    IF cached # NoWord THEN [m EXCEPT !.out = cached]
    ELSE ExecutedWord(execute_word(tch, m, word), word)

\* KnowledgeBase._resolve_word; m.out is the returned word
resolve_word(tch, m, word) == LookedUp(tch, m, word, get_output_word(m.nodes, word))

\* KnowledgeBase.resolve_query: query.output_word is set unless an exception
\* was raised
resolve_query(tch, m, input_word) ==
    IF m.exc # NoExc THEN m ELSE resolve_word(tch, m, input_word)

\* ------------------------------------------------------------------------
\* ObservationTable.py
\* ------------------------------------------------------------------------

\* a mutant of the membership test: no word is ever found in a list
InList_never(x, list) == FALSE

\* x in list
InList(x, list) == x \in {list[i] : i \in 1..Len(list)}

\* list.remove(x): the first occurrence
RemoveFirst(list, x) ==
    LET hits == {i \in 1..Len(list) : list[i] = x}
        k == CHOOSE i \in hits : \A j \in hits : i <= j
    IN IF hits = {} THEN list
       ELSE [i \in 1..(Len(list) - 1) |-> IF i < k THEN list[i] ELSE list[i + 1]]

\* dict[key] = value
SetItem(dict, key, value) == (key :> value) @@ dict

\* the empty dict()
EmptyDict == << >>

\* the except clause of __execute_query, r being the program state that
\* resolve_query left
Swallow(r) == IF r.exc # NoExc THEN [r EXCEPT !.exc = NoExc, !.out = NoWord] ELSE r

\* ObservationTable.__execute_query: an exception of resolve_query is logged
\* and dropped, the query stays without output word
execute_query(tch, m, input_word) == Swallow(resolve_query(tch, m, input_word))

\* ObservationTable.__get_row
get_row(m, row_name) ==
    LET cols == SelectSeq(m.D, LAMBDA d : d \in DOMAIN m.ot_content
                                          /\ row_name \in DOMAIN m.ot_content[d])
    IN [i \in 1..Len(cols) |-> m.ot_content[cols[i]][row_name]]

\* a mutant of the body of the loop of FillRow: a query without output word
\* is skipped
StoreCell_unanswered_skipped(q, word, d) ==
    IF q.out = NoWord THEN q
    ELSE [q EXCEPT !.ot_content[d] = SetItem(q.ot_content[d], word, last_letter(q.out))]

\* the end of the body of the loop of FillRow, q being the program state
\* after the query word + word_in_D: the test of is_queried, and
\* cel[word] = output_query.output_word.last_letter()
StoreCell(q, word, d) ==
    IF q.out = NoWord THEN [q EXCEPT !.exc = "NotQueried"]
    ELSE [q EXCEPT !.ot_content[d] = SetItem(q.ot_content[d], word, last_letter(q.out))]

RECURSIVE FillRow_suffix_first(_, _, _, _, _)
\* a mutant of the loop of __add_word_in_S and of __add_word_in_SA: the query
\* is made of the word of D followed by the word of the row
FillRow_suffix_first(tch, m, word, ds, in_SA) ==
    IF m.exc # NoExc \/ ds = << >> THEN m
    ELSE IF ds[1] \notin DOMAIN m.ot_content THEN [m EXCEPT !.exc = "KeyError"]
    ELSE IF in_SA /\ word \in DOMAIN m.ot_content[ds[1]]
    THEN [m EXCEPT !.exc = "AlreadyInTable"]
    ELSE FillRow_suffix_first(tch,
                 StoreCell(execute_query(tch, m, WordAdd(ds[1], word)), word, ds[1]),
                 word, Tail(ds), in_SA)

RECURSIVE FillRow(_, _, _, _, _)
\* the loop "for word_in_D in self.D" of __add_word_in_S (in_SA FALSE) and
\* of __add_word_in_SA (in_SA TRUE)
FillRow(tch, m, word, ds, in_SA) ==
    IF m.exc # NoExc \/ ds = << >> THEN m
    ELSE IF ds[1] \notin DOMAIN m.ot_content THEN [m EXCEPT !.exc = "KeyError"]
    ELSE IF in_SA /\ word \in DOMAIN m.ot_content[ds[1]]
    THEN [m EXCEPT !.exc = "AlreadyInTable"]
    ELSE FillRow(tch, StoreCell(execute_query(tch, m, WordAdd(word, ds[1])), word, ds[1]),
                 word, Tail(ds), in_SA)

\* ObservationTable.__add_word_in_SA
add_word_in_SA(tch, m, word) ==
    IF m.exc # NoExc THEN m
    ELSE IF InList(word, m.SA) THEN [m EXCEPT !.exc = "AlreadyInSA"]
    ELSE IF InList(word, m.S) THEN [m EXCEPT !.exc = "AlreadyInS"]
    ELSE FillRow(tch, [m EXCEPT !.SA = Append(m.SA, word)], word, m.D, TRUE)

\* a mutant of the loop of __add_word_in_S: only the first input letter
\* extends the word
ExpandRow_first_letter(tch, m, word, letters) ==
    IF m.exc # NoExc \/ letters = << >> THEN m
    ELSE LET new_word == IF word[1] = EmptyLetter THEN Word(<<letters[1]>>)
                         ELSE WordAdd(word, Word(<<letters[1]>>))
         IN IF ~InList(new_word, m.S) THEN add_word_in_SA(tch, m, new_word) ELSE m

RECURSIVE ExpandRow(_, _, _, _)
\* the loop "for input_letter in self.input_letters" of __add_word_in_S
ExpandRow(tch, m, word, letters) ==
    IF m.exc # NoExc \/ letters = << >> THEN m
    ELSE LET new_word == IF word[1] = EmptyLetter THEN Word(<<letters[1]>>)
                         ELSE WordAdd(word, Word(<<letters[1]>>))
         IN IF ~InList(new_word, m.S)
            THEN ExpandRow(tch, add_word_in_SA(tch, m, new_word), word, Tail(letters))
            ELSE ExpandRow(tch, m, word, Tail(letters))

\* ObservationTable.__add_word_in_S
add_word_in_S(tch, m, word) ==
    IF m.exc # NoExc THEN m
    ELSE IF InList(word, m.S) THEN [m EXCEPT !.exc = "AlreadyInS"]
    ELSE IF InList(word, m.SA) THEN [m EXCEPT !.exc = "AlreadyInSA"]
    ELSE ExpandRow(tch,
                   FillRow(tch, [m EXCEPT !.S = Append(m.S, word)], word, m.D, FALSE),
                   word, input_letters)

RECURSIVE FillColumn(_, _, _, _, _)
RECURSIVE StoreCel(_, _, _, _, _)
\* the end of the body of the loop of FillColumn, q being the program state
\* after the query word_in_S_or_SA + word: the test of is_queried, and
\* cels[word_in_S_or_SA] = output_query.output_word.last_letter()
StoreCel(tch, q, word, rows, cels) ==
    IF q.out = NoWord THEN [q EXCEPT !.exc = "NotQueried"]
    ELSE FillColumn(tch, q, word, Tail(rows), SetItem(cels, rows[1], last_letter(q.out)))

\* the loop "for word_in_S_or_SA in self.S + self.SA" of __add_word_in_D
\* with the dict cels, and self.ot_content[word] = cels after it
FillColumn(tch, m, word, rows, cels) ==
    IF m.exc # NoExc THEN m
    ELSE IF rows = << >> THEN [m EXCEPT !.ot_content = SetItem(m.ot_content, word, cels)]
    ELSE StoreCel(tch, execute_query(tch, m, WordAdd(rows[1], word)), word, rows, cels)

\* ObservationTable.__add_word_in_D
add_word_in_D(tch, m, word) ==
    IF m.exc # NoExc THEN m
    ELSE IF InList(word, m.D) THEN [m EXCEPT !.exc = "AlreadyInD"]
    ELSE IF word \in DOMAIN m.ot_content THEN [m EXCEPT !.exc = "AlreadyInContent"]
    ELSE FillColumn(tch, [m EXCEPT !.D = Append(m.D, word)], word, m.S \o m.SA, EmptyDict)

RECURSIVE InitD(_, _, _)
\* the loop "for letter in self.input_letters" of initialize
InitD(tch, m, letters) ==
    IF m.exc # NoExc \/ letters = << >> THEN m
    ELSE InitD(tch, add_word_in_D(tch, m, Word(<<letters[1]>>)), Tail(letters))

\* a mutant of initialize: the table is made anew when it is initialised
initialize_anew(tch, m) ==
    add_word_in_S(tch,
                  InitD(tch,
                        [m EXCEPT !.initialized = TRUE, !.D = << >>, !.S = << >>,
                                  !.SA = << >>, !.ot_content = EmptyDict],
                        input_letters),
                  EmptyWord)

\* ObservationTable.initialize
initialize(tch, m) ==
    IF m.initialized THEN [m EXCEPT !.exc = "AlreadyInitialized"]
    ELSE add_word_in_S(tch,
                       InitD(tch,
                             [m EXCEPT !.initialized = TRUE, !.D = << >>, !.S = << >>,
                                       !.SA = << >>, !.ot_content = EmptyDict],
                             input_letters),
                       EmptyWord)

RECURSIVE ClearRow(_, _, _)
\* the loop "for word_in_D in self.D" of remove_row: cel[row] = None
ClearRow(m, row, ds) ==
    IF m.exc # NoExc \/ ds = << >> THEN m
    ELSE IF ds[1] \notin DOMAIN m.ot_content THEN [m EXCEPT !.exc = "KeyError"]
    ELSE ClearRow([m EXCEPT !.ot_content[ds[1]] = SetItem(m.ot_content[ds[1]], row, None)],
                  row, Tail(ds))

\* ObservationTable.remove_row
remove_row(m, row) ==
    IF m.exc # NoExc THEN m
    ELSE ClearRow([m EXCEPT !.S = RemoveFirst(m.S, row), !.SA = RemoveFirst(m.SA, row)],
                  row, m.D)

RECURSIVE AddPrefixes(_, _, _, _)
\* the loop "for len_prefix in range(1, len(input_word)+1)" of
\* add_counterexample
AddPrefixes(tch, m, input_word, len_prefix) ==
    IF m.exc # NoExc \/ len_prefix > Len(input_word) THEN m
    ELSE LET prefix_input == Word(SubSeq(input_word, 1, len_prefix))
         IN IF ~InList(prefix_input, m.S)
            THEN LET removed == IF InList(prefix_input, m.SA)
                                THEN remove_row(m, prefix_input) ELSE m
                 IN AddPrefixes(tch, add_word_in_S(tch, removed, prefix_input),
                                input_word, len_prefix + 1)
            ELSE AddPrefixes(tch, m, input_word, len_prefix + 1)

\* a mutant of add_counterexample: the words are checked and the table is
\* left as it is
add_counterexample_ignored(tch, m, input_word, output_word) ==
    IF m.exc # NoExc THEN m
    ELSE IF Len(input_word) = 0 \/ Len(output_word) = 0 THEN [m EXCEPT !.exc = "EmptyWord"]
    ELSE IF Len(input_word) # Len(output_word) THEN [m EXCEPT !.exc = "LengthMismatch"]
    ELSE m

\* ObservationTable.add_counterexample
add_counterexample(tch, m, input_word, output_word) ==
    IF m.exc # NoExc THEN m
    ELSE IF Len(input_word) = 0 \/ Len(output_word) = 0 THEN [m EXCEPT !.exc = "EmptyWord"]
    ELSE IF Len(input_word) # Len(output_word) THEN [m EXCEPT !.exc = "LengthMismatch"]
    ELSE AddPrefixes(tch, m, input_word, 1)

\* a mutant of make_consistent: the new column is the suffix of D followed
\* by the input letter
make_consistent_letter_last(tch, m, inconsistency) ==
    IF m.exc # NoExc THEN m
    ELSE add_word_in_D(tch, m, Word(inconsistency.detail \o <<inconsistency.suffix>>))

\* ObservationTable.make_consistent; an inconsistency is
\* [pair, suffix, detail] for the Python ((pair, suffix), detail)
make_consistent(tch, m, inconsistency) ==
    IF m.exc # NoExc THEN m
    ELSE add_word_in_D(tch, m, Word(<<inconsistency.suffix>> \o inconsistency.detail))

\* the test of is_closed and close_table on one word of SA: some word of S
\* has the same row
FoundInS(m, sa) == get_row(m, sa) \in {get_row(m, m.S[i]) : i \in 1..Len(m.S)}

\* ObservationTable.is_closed
is_closed(m) == \A i \in 1..Len(m.SA) : FoundInS(m, m.SA[i])

RECURSIVE CloseLoop(_, _, _)
\* the loop "for word_in_sa in self.SA" of close_table: the list iterator
\* holds the next index i into self.SA, which the body changes
CloseLoop(tch, m, i) ==
    IF m.exc # NoExc \/ i > Len(m.SA) THEN m
    ELSE LET word_in_sa == m.SA[i]
         IN IF FoundInS(m, word_in_sa)
            THEN CloseLoop(tch, m, i + 1)
            ELSE CloseLoop(tch,
                           add_word_in_S(tch,
                                         [m EXCEPT !.SA = RemoveFirst(m.SA, word_in_sa)],
                                         word_in_sa),
                           i + 1)

\* a mutant of close_table: no word of SA is moved to S
close_table_nothing_moved(tch, m) == m

\* ObservationTable.close_table
close_table(tch, m) == IF m.exc # NoExc THEN m ELSE CloseLoop(tch, m, 1)

\* the cell self.ot_content[word_in_D][row]; "KeyError" where Python raises it
Cell(m, d, row) ==
    IF d \in DOMAIN m.ot_content /\ row \in DOMAIN m.ot_content[d]
    THEN m.ot_content[d][row] ELSE "KeyError"

RECURSIVE JoinComma(_)
\* ','.join(strings)
JoinComma(strings) ==
    IF strings = << >> THEN ""
    ELSE IF Len(strings) = 1 THEN strings[1]
    ELSE strings[1] \o "," \o JoinComma(Tail(strings))

\* ','.join([str(w) for w in row]): the key of S_with_same_rows in
\* find_inconsistency and build_hypothesis, the long_state_name
LongStateName(row) == JoinComma([i \in 1..Len(row) |-> LetterStr(row[i])])

\* long_state_name.replace("Letter(", "").replace(')', ''): the name of the
\* State, which keeps the symbols of the row
StateName(row) ==
    JoinComma([i \in 1..Len(row) |-> row[i]])

\* a mutant of __is_prefixes_equivalent: only the first input letter is tried
PrefixDiffs_first_letter(m, w0, w1) ==
    {p \in {1} \X (1..Len(m.D)) :
        Cell(m, m.D[p[2]], Word(w1 \o <<input_letters[p[1]]>>))
            # Cell(m, m.D[p[2]], Word(w0 \o <<input_letters[p[1]]>>))}

\* ObservationTable.__is_prefixes_equivalent on the pair (w0, w1): the pairs
\* <<letter index, index in D>> at which the cells of the suffixed words differ
PrefixDiffs(m, w0, w1) ==
    {p \in (1..Len(input_letters)) \X (1..Len(m.D)) :
        Cell(m, m.D[p[2]], Word(w1 \o <<input_letters[p[1]]>>))
            # Cell(m, m.D[p[2]], Word(w0 \o <<input_letters[p[1]]>>))}

\* ObservationTable.__is_prefixes_equivalent: the first difference in the
\* order of the loops (input letters, then D), NoWord for None
is_prefixes_equivalent(m, w0, w1) ==
    LET diffs == PrefixDiffs(m, w0, w1)
    IN IF diffs = {} THEN NoWord
       ELSE LET p == CHOOSE x \in diffs :
                        \A y \in diffs : x[1] < y[1] \/ (x[1] = y[1] /\ x[2] <= y[2])
            IN <<input_letters[p[1]], m.D[p[2]]>>

\* ObservationTable.find_inconsistency: the values the method can return.
\* The words of S are visited in the iteration order of the dict rows_in_S,
\* which is the order of the hashes of the words; every order is taken to be
\* possible, so the first pair of words with equal rows that is not
\* equivalent can be any such pair.  The empty set stands for None.
find_inconsistency(m) ==
    {[pair |-> <<m.S[i], m.S[j]>>,
      suffix |-> is_prefixes_equivalent(m, m.S[i], m.S[j])[1],
      detail |-> is_prefixes_equivalent(m, m.S[i], m.S[j])[2]] :
        <<i, j>> \in {p \in (1..Len(m.S)) \X (1..Len(m.S)) :
                        /\ p[1] # p[2]
                        /\ LongStateName(get_row(m, m.S[p[1]]))
                               = LongStateName(get_row(m, m.S[p[2]]))
                        /\ PrefixDiffs(m, m.S[p[1]], m.S[p[2]]) # {}}}

\* the keys of S_with_same_rows: the key of a row is added to the dict by
\* the first word of S that has the row
RowKeys(m) ==
    {LongStateName(get_row(m, m.S[i])) :
        i \in {j \in 1..Len(m.S) :
                 \A h \in 1..(j - 1) : get_row(m, m.S[h]) # get_row(m, m.S[j])}}

\* S_with_same_rows[key] as a set: the words of S whose row has this key
WordsOfKey(m, key) ==
    {m.S[i] : i \in {j \in 1..Len(m.S) : LongStateName(get_row(m, m.S[j])) = key}}

RECURSIVE ChooseWords(_, _)
\* the functions that give every key one of its words
ChooseWords(keys, words_of) ==
    IF keys = {} THEN {<< >>}
    ELSE LET k == CHOOSE x \in keys : TRUE
         IN {(k :> w) @@ rep : w \in words_of[k], rep \in ChooseWords(keys \ {k}, words_of)}

\* the possible values of words_in_S[0] for every key: the first word of a
\* list of S_with_same_rows is the first in the iteration order of the dict
\* rows_in_S, which can be any word of the list
RepChoices(m) ==
    LET keys == RowKeys(m)
    IN ChooseWords(keys, [k \in keys |-> WordsOfKey(m, k)])

\* a mutant of the transitions of build_hypothesis: the output letter is
\* read in the column of the first input letter
HypTransition_first_column(m, keys, word, input_letter) ==
    LET row_new_word == get_row(m, WordAdd(word, Word(<<input_letter>>)))
    IN [input_letter |-> input_letter,
        output_letter |-> Cell(m, Word(<<input_letters[1]>>), word),
        output_state |-> IF LongStateName(row_new_word) \in keys
                         THEN StateName(row_new_word) ELSE None]

\* a mutant of the transitions of build_hypothesis: every transition leads
\* back to the state of the word it leaves
HypTransition_self_loop(m, keys, word, input_letter) ==
    LET row_new_word == get_row(m, word)
    IN [input_letter |-> input_letter,
        output_letter |-> Cell(m, Word(<<input_letter>>), word),
        output_state |-> IF LongStateName(row_new_word) \in keys
                         THEN StateName(row_new_word) ELSE None]

\* the transition build_hypothesis makes for the representative word of a
\* state and an input letter, keys being the keys of long_state_name_to_states;
\* output_state None when the row of the suffixed word names no state
\* ("Cannot find a state")
HypTransition(m, keys, word, input_letter) ==
    LET row_new_word == get_row(m, WordAdd(word, Word(<<input_letter>>)))
    IN [input_letter |-> input_letter,
        output_letter |-> Cell(m, Word(<<input_letter>>), word),
        output_state |-> IF LongStateName(row_new_word) \in keys
                         THEN StateName(row_new_word) ELSE None]

\* ObservationTable.build_hypothesis with words_in_S[0] given by rep:
\* [exc, initial_state, transitions], the states being named by their name
build_hypothesis(m, rep) ==
    LET keys == RowKeys(m)
        initial_keys == {k \in keys : EmptyWord \in WordsOfKey(m, k)}
        by_key == [k \in keys |->
                      [name |-> StateName(get_row(m, rep[k])),
                       transitions |-> [i \in 1..Len(input_letters) |->
                                           HypTransition(m, keys, rep[k], input_letters[i])]]]
        names == {by_key[k].name : k \in keys}
        made == {by_key[k].transitions[i] : k \in keys, i \in 1..Len(input_letters)}
        raised == IF Cardinality(initial_keys) > 1 THEN "MultipleInitialState"
                  ELSE IF initial_keys = {} THEN "NoInitialState"
                  ELSE IF \E t \in made : t.output_state = None THEN "CannotFindState"
                  ELSE IF \E t \in made : t.output_letter = "KeyError" THEN "KeyError"
                  ELSE NoExc
    IN [exc |-> raised,
        initial_state |-> IF Cardinality(initial_keys) = 1
                          THEN StateName(get_row(m, EmptyWord)) ELSE None,
        transitions |-> [name \in names |->
                            by_key[CHOOSE k \in keys : by_key[k].name = name].transitions]]

\* ------------------------------------------------------------------------
\* Automata.get_states, eqtests/WpMethodEQ.py and LSTAR.find_counterexample
\* (the two have the same code)
\* ------------------------------------------------------------------------

RECURSIVE PushSuccessors(_, _, _, _)
\* the loop "for transition in currentState.transitions" of get_states
PushSuccessors(transitions, states, toAnalyze, i) ==
    IF i > Len(transitions) THEN toAnalyze
    ELSE LET outputState == transitions[i].output_state
         IN IF InList(outputState, states) \/ InList(outputState, toAnalyze)
            THEN PushSuccessors(transitions, states, toAnalyze, i + 1)
            ELSE PushSuccessors(transitions, states, Append(toAnalyze, outputState), i + 1)

RECURSIVE GetStatesLoop(_, _, _)
\* the loop "while (len(toAnalyze) > 0)" of get_states
GetStatesLoop(automata, states, toAnalyze) ==
    IF toAnalyze = << >> THEN states
    ELSE LET currentState == toAnalyze[Len(toAnalyze)]
             popped == SubSeq(toAnalyze, 1, Len(toAnalyze) - 1)
         IN IF InList(currentState, states)
            THEN GetStatesLoop(automata, states, popped)
            ELSE GetStatesLoop(automata, Append(states, currentState),
                               PushSuccessors(automata.transitions[currentState],
                                              states, popped, 1))

\* Automata.get_states
get_states(automata) == GetStatesLoop(automata, << >>, <<automata.initial_state>>)

\* itertools.combinations(states, 2), in its order
Combinations2(states) ==
    LET n == Len(states)
        pairs == {p \in (1..n) \X (1..n) : p[1] < p[2]}
        rank(p) == Cardinality({q \in pairs : q[1] < p[1] \/ (q[1] = p[1] /\ q[2] < p[2])})
    IN [k \in 1..Cardinality(pairs) |->
           LET p == CHOOSE q \in pairs : rank(q) = k - 1
           IN <<states[p[1]], states[p[2]]>>]

\* the words word + Word([letter]) for the input letters, in their order
Extensions(word) ==
    [i \in 1..Len(input_letters) |-> WordAdd(word, Word(<<input_letters[i]>>))]

\* WpMethodEQ.__is_distinguishable_states
is_distinguishable_states(hyp, input_word, couple) ==
    play_word(hyp, input_word, couple[1]).output_word
        # play_word(hyp, input_word, couple[2]).output_word

RECURSIVE DistinguishLoop(_, _, _, _)
\* the loop "while not done" of __compute_distinguishable_string
DistinguishLoop(hyp, couple, queries_to_test, i) ==
    LET query == Head(queries_to_test)
    IN IF i > max_states * max_states THEN EmptyWord
       ELSE IF ~is_distinguishable_states(hyp, query, couple)
       THEN DistinguishLoop(hyp, couple, Tail(queries_to_test) \o Extensions(query), i + 1)
       ELSE query

\* WpMethodEQ.__compute_distinguishable_string
compute_distinguishable_string(hyp, couple) ==
    DistinguishLoop(hyp, couple, Extensions(EmptyWord), 0)

RECURSIVE ExpandP(_, _, _, _, _, _)
\* the loop "for letter in self.input_letters" of __computesP for one query:
\* [close_queries, open_queries, tmp_seen_states]
ExpandP(hyp, query, seen_states, acc, i, n) ==
    IF i > n THEN acc
    ELSE LET query_z == WordAdd(query, Word(<<input_letters[i]>>))
             visited_states == play_query(hyp, query_z).visited_states
             last == visited_states[Len(visited_states)]
             closed == [acc EXCEPT !.close_queries = Append(@, query_z)]
         IN IF last \notin seen_states
            THEN ExpandP(hyp, query, seen_states,
                         [closed EXCEPT !.open_queries = Append(@, query_z),
                                        !.tmp_seen_states = @ \cup {last}],
                         i + 1, n)
            ELSE ExpandP(hyp, query, seen_states, closed, i + 1, n)

RECURSIVE PLoop(_, _, _, _)
\* the loop "while len(open_queries) > 0" of __computesP
PLoop(hyp, open_queries, close_queries, seen_states) ==
    IF open_queries = << >> THEN close_queries
    ELSE LET r == ExpandP(hyp, Head(open_queries), seen_states,
                          [close_queries |-> close_queries,
                           open_queries |-> Tail(open_queries),
                           tmp_seen_states |-> {}],
                          1, Len(input_letters))
         IN PLoop(hyp, r.open_queries, r.close_queries, seen_states \cup r.tmp_seen_states)

\* a mutant of __computesP: the queries opened by the loop are not expanded
computesP_first_level(hyp) ==
    <<EmptyWord>> \o [i \in 1..Len(input_letters) |-> Word(<<input_letters[i]>>)]

\* WpMethodEQ.__computesP
computesP(hyp) == <<EmptyWord>> \o PLoop(hyp, <<EmptyWord>>, << >>, {hyp.initial_state})

RECURSIVE Flatten(_)
\* the concatenation of a list of lists
Flatten(lists) == IF lists = << >> THEN << >> ELSE Head(lists) \o Flatten(Tail(lists))

\* X[i] from previous_X = X[i-1]: x.multiply(output_queries) for every x
\* (OutputQuery.multiply)
NextX(previous_X) == Flatten([k \in 1..Len(previous_X) |-> Extensions(previous_X[k])])

RECURSIVE ZLoop(_, _, _, _, _)
\* the loop "for i in range(1, v+1)" of __computesZ.  The queries of X[i]
\* are new objects and OutputQuery has no __eq__, so "not xi in Z" holds
\* for each of them in the first pass of "for w in W" and fails afterwards
ZLoop(W, Z, previous_X, i, v) ==
    IF i > v THEN Z
    ELSE LET X_i == NextX(previous_X)
         IN ZLoop(W, IF W = << >> THEN Z ELSE Z \o X_i, X_i, i + 1, v)

\* a mutant of __computesZ: Z is W, without the words of X[1], ..., X[v]
computesZ_without_X(hyp, W) == W

\* WpMethodEQ.__computesZ
computesZ(hyp, W) ==
    LET n == Len(get_states(hyp))
        v == IF max_states - n < 0 THEN 0 ELSE max_states - n
    IN ZLoop(W, W, W, 1, v)

\* the list T of find_counterexample
TestSuite(hyp) ==
    LET couples == Combinations2(get_states(hyp))
        W == [k \in 1..Len(couples) |-> compute_distinguishable_string(hyp, couples[k])]
    IN computesP(hyp) \o computesZ(hyp, W)

\* the end of the body of the loop of find_counterexample, r being the
\* program state after resolve_query: the comparison of the output words,
\* after which the loop goes on when they are equal
CompareTest(tch, r, hyp, T, i, played) ==
    IF r.exc # NoExc THEN [m |-> r, counterexample |-> NoCounterexample]
    ELSE IF r.out # played.output_word
    THEN [m |-> r, counterexample |-> [input_word |-> T[i], output_word |-> r.out]]
    ELSE [m |-> r, counterexample |-> NoCounterexample]

\* the body of the loop of find_counterexample after
\* hypothesis.play_query(testcase_query), which gave played
RunTest(tch, m, hyp, T, i, played) ==
    IF played.exc # NoExc
    THEN [m |-> [m EXCEPT !.exc = played.exc], counterexample |-> NoCounterexample]
    ELSE CompareTest(tch, resolve_query(tch, m, T[i]), hyp, T, i, played)

RECURSIVE RunRange(_, _, _, _, _, _)
\* the loop of find_counterexample on the test cases from lo to hi, after
\* the test cases before them, which gave r: the loop ends on a return and
\* on an exception
RunRest(tch, hyp, T, lo, hi, r) ==
    IF r.m.exc # NoExc \/ r.counterexample # NoCounterexample THEN r
    ELSE RunRange(tch, r.m, hyp, T, lo, hi)

\* the loop of find_counterexample on the test cases from lo to hi, in
\* their order: the first half of them, then the second half
RunRange(tch, m, hyp, T, lo, hi) ==
    IF lo > hi THEN [m |-> m, counterexample |-> NoCounterexample]
    ELSE IF lo = hi THEN RunTest(tch, m, hyp, T, lo, play_query(hyp, T[lo]))
    ELSE RunRest(tch, hyp, T, (lo + hi) \div 2 + 1, hi,
                 RunRange(tch, m, hyp, T, lo, (lo + hi) \div 2))

\* the loop "for i_testcase, testcase_query in enumerate(T[1:])" of
\* find_counterexample: [m, counterexample], the counterexample being
\* [input_word, output_word] or NoCounterexample for None
RunTests(tch, m, hyp, T, i) == RunRange(tch, m, hyp, T, i, Len(T))

\* WpMethodEQ.find_counterexample, LSTAR.find_counterexample
find_counterexample(tch, m, hyp) == RunTests(tch, m, hyp, TestSuite(hyp), 2)

\* ------------------------------------------------------------------------
\* eqtests/BDistMethod.py
\* ------------------------------------------------------------------------

\* itertools.product(self.input_letters, repeat=i), in its order
RECURSIVE Product(_)
Product(i) ==
    IF i = 0 THEN << <<>> >>
    ELSE LET shorter == Product(i - 1)
         IN Flatten([k \in 1..Len(shorter) |->
                        [j \in 1..Len(input_letters) |-> Append(shorter[k], input_letters[j])]])

\* BDistMethod.__init__: self.suffix_list
suffix_list(bdist) == Flatten([i \in 1..bdist |-> Product(i)])

\* the list of get_representatives: (t.output_state, representatives[name] +
\* Word([t.input_letter])) for the transitions of the state that lead to a
\* state without representative
RepSuccessors(automaton, currentState, representatives) ==
    LET transitions == automaton.transitions[currentState]
        Unknown(t) == t.output_state \notin DOMAIN representatives
        Reached(t) == [state |-> t.output_state,
                       in_word |-> WordAdd(representatives[currentState], <<t.input_letter>>)]
        kept == SelectSeq(transitions, Unknown)
    IN [k \in 1..Len(kept) |-> Reached(kept[k])]

\* get_representatives: the body of the loop for the popped element
RepPopped(automaton, representatives, popped, last) ==
    IF last.state \in DOMAIN representatives
    THEN [representatives |-> representatives, to_analyze |-> popped]
    ELSE [representatives |-> (last.state :> last.in_word) @@ representatives,
          to_analyze |-> popped \o RepSuccessors(automaton, last.state,
                                        (last.state :> last.in_word) @@ representatives)]

RECURSIVE RepLoop(_, _, _)
\* get_representatives: the loop "while len(to_analyze) > 0 and
\* len(representatives) < nb_states", r being [representatives, to_analyze]
RepLoop(automaton, nb_states, r) ==
    IF Len(r.to_analyze) > 0 /\ Cardinality(DOMAIN r.representatives) < nb_states
    THEN RepLoop(automaton, nb_states,
                 RepPopped(automaton, r.representatives,
                           SubSeq(r.to_analyze, 1, Len(r.to_analyze) - 1),
                           r.to_analyze[Len(r.to_analyze)]))
    ELSE r.representatives

\* BDistMethod.get_representatives: a dict from state names to words
get_representatives(automaton) ==
    RepLoop(automaton, Len(get_states(automaton)),
            [representatives |-> (automaton.initial_state :> << >>),
             to_analyze |-> RepSuccessors(automaton, automaton.initial_state,
                                          (automaton.initial_state :> << >>))])

\* "no suffix found": the (None, None, None) of __check_equivalence
NoSuffix(m) == [m |-> m, suffix |-> NoWord, query_i |-> NoCounterexample,
                query_i_prime |-> NoCounterexample]

RECURSIVE CheckSuffixes(_, _, _, _, _, _)
\* the end of the body of the loop of __check_equivalence: r_i and r_prime
\* are the program states after the two calls of resolve_query
SuffixResolved(tch, w_i, w_i_prime, suffixes, k, r_i, r_prime) ==
    IF r_prime.exc # NoExc THEN NoSuffix(r_prime)
    ELSE IF last_letter(r_i.out) # last_letter(r_prime.out)
    THEN [m |-> r_prime, suffix |-> suffixes[k],
          query_i |-> [input_word |-> WordAdd(w_i, suffixes[k]), output_word |-> r_i.out],
          query_i_prime |-> [input_word |-> WordAdd(w_i_prime, suffixes[k]),
                             output_word |-> r_prime.out]]
    ELSE CheckSuffixes(tch, r_prime, w_i, w_i_prime, suffixes, k + 1)

\* the body of the loop of __check_equivalence after the first call of
\* resolve_query, which ended in the program state r_i
SuffixFirst(tch, w_i, w_i_prime, suffixes, k, r_i) ==
    SuffixResolved(tch, w_i, w_i_prime, suffixes, k, r_i,
                   resolve_query(tch, r_i, WordAdd(w_i_prime, suffixes[k])))

\* BDistMethod.__check_equivalence: the loop "for suffix in self.suffix_list"
CheckSuffixes(tch, m, w_i, w_i_prime, suffixes, k) ==
    IF m.exc # NoExc \/ k > Len(suffixes) THEN NoSuffix(m)
    ELSE SuffixFirst(tch, w_i, w_i_prime, suffixes, k,
                     resolve_query(tch, m, WordAdd(w_i, suffixes[k])))

\* the program state m with the exception raised in it, and no query returned
Raised(m, raised) == [m |-> [m EXCEPT !.exc = raised], counterexample |-> NoCounterexample]

\* a mutant of the choice: query_i_prime is returned in both cases
ChooseQuery_always_prime(eq, expected, expected_prime) ==
    IF expected.exc # NoExc THEN Raised(eq.m, expected.exc)
    ELSE IF expected_prime.exc # NoExc THEN Raised(eq.m, expected_prime.exc)
    ELSE [m |-> eq.m, counterexample |-> eq.query_i_prime]

\* BDistMethod.find_counterexample: the choice between query_i and
\* query_i_prime, expected being hypothesis.play_word(w_i + suffix) and
\* expected_prime hypothesis.play_word(w_i_prime + suffix)
ChooseQuery(eq, expected, expected_prime) ==
    IF expected.exc # NoExc THEN Raised(eq.m, expected.exc)
    ELSE IF expected.output_word # eq.query_i.output_word
    THEN [m |-> eq.m, counterexample |-> eq.query_i]
    ELSE IF expected_prime.exc # NoExc THEN Raised(eq.m, expected_prime.exc)
    ELSE [m |-> eq.m, counterexample |-> eq.query_i_prime]

RECURSIVE BDistLoop(_, _, _, _, _, _, _, _)
\* BDistMethod.find_counterexample after __check_equivalence, which gave eq
BDistChecked(tch, hyp, reps, suffixes, states, qi, li, eq) ==
    IF eq.m.exc # NoExc THEN [m |-> eq.m, counterexample |-> NoCounterexample]
    ELSE IF eq.suffix # NoWord /\ Len(eq.suffix) > 0
    THEN ChooseQuery(eq, play_query(hyp, eq.query_i.input_word),
                     play_query(hyp, eq.query_i_prime.input_word))
    ELSE BDistLoop(tch, eq.m, hyp, reps, suffixes, states, qi, li + 1)

\* BDistMethod.find_counterexample after self.knowledge_base.resolve_query(query),
\* which ended in the program state r: out is hypothesis.play_word(word, q)
BDistResolved(tch, hyp, reps, suffixes, states, qi, li, w_i, out, r) ==
    IF r.exc # NoExc THEN [m |-> r, counterexample |-> NoCounterexample]
    ELSE IF last_letter(out.output_word) # last_letter(r.out)
    THEN [m |-> r, counterexample |-> [input_word |-> w_i, output_word |-> r.out]]
    ELSE IF last_letter(out.visited_states) \notin DOMAIN reps THEN Raised(r, "KeyError")
    ELSE IF w_i = reps[last_letter(out.visited_states)]
    THEN BDistLoop(tch, r, hyp, reps, suffixes, states, qi, li + 1)
    ELSE BDistChecked(tch, hyp, reps, suffixes, states, qi, li,
                      CheckSuffixes(tch, r, w_i, reps[last_letter(out.visited_states)],
                                    suffixes, 1))

\* BDistMethod.find_counterexample: the body of the two loops for the
\* state q and the letter, out being hypothesis.play_word(word, q)
BDistPlayed(tch, m, hyp, reps, suffixes, states, qi, li, w_i, out) ==
    IF out.exc # NoExc THEN Raised(m, out.exc)
    ELSE BDistResolved(tch, hyp, reps, suffixes, states, qi, li, w_i, out,
                       resolve_query(tch, m, w_i))

\* BDistMethod.find_counterexample: the loops "for q in
\* hypothesis.get_states()" and "for letter in self.input_letters"
BDistLoop(tch, m, hyp, reps, suffixes, states, qi, li) ==
    IF qi > Len(states) THEN [m |-> m, counterexample |-> NoCounterexample]
    ELSE IF li > Len(input_letters)
    THEN BDistLoop(tch, m, hyp, reps, suffixes, states, qi + 1, 1)
    ELSE IF states[qi] \notin DOMAIN reps THEN Raised(m, "KeyError")
    ELSE BDistPlayed(tch, m, hyp, reps, suffixes, states, qi, li,
                     WordAdd(reps[states[qi]], <<input_letters[li]>>),
                     play_word(hyp, <<input_letters[li]>>, states[qi]))

\* BDistMethod.find_counterexample: [m, counterexample]
bdist_find_counterexample(tch, m, hyp, bdist) ==
    BDistLoop(tch, m, hyp, get_representatives(hyp), suffix_list(bdist),
              get_states(hyp), 1, 1)

\* ------------------------------------------------------------------------
\* eqtests/RandomWalkMethod.py
\* The random numbers are given by a tape: tape[i].restart is the outcome of
\* "random.random() < self.restart_probability" in the step i, tape[i].pick
\* the index random.choice takes among the transitions of the state.
\* A walk w is [current_state, first_step_after_restart, force_restart,
\* input_word, hypothesis_output_word].
\* ------------------------------------------------------------------------

\* the walk at the start of find_counterexample, and after a restart
StartWalk(hyp) ==
    [current_state |-> hyp.initial_state, first_step_after_restart |-> TRUE,
     force_restart |-> FALSE, input_word |-> << >>, hypothesis_output_word |-> << >>]

\* RandomWalkMethod.__walk and the try clause around it: the transition
\* picked is visited, and the letters are appended to the two words; an
\* exception sets force_restart
walk(hyp, w, pick) ==
    LET transitions == hyp.transitions[w.current_state]
        i == IF pick \in 1..Len(transitions)
             THEN VisitIndex(hyp, w.current_state, transitions[pick].input_letter) ELSE 0
    IN IF i = 0 THEN [w EXCEPT !.force_restart = TRUE]
       ELSE [w EXCEPT !.current_state = transitions[i].output_state,
                      !.input_word = Append(@, transitions[i].input_letter),
                      !.hypothesis_output_word = Append(@, transitions[i].output_letter)]

\* a mutant of the restart: the query is returned whatever its output word
Restarted_query_returned(tch, hyp, tape, i, w, r) ==
    IF r.exc # NoExc THEN [m |-> r, counterexample |-> NoCounterexample]
    ELSE [m |-> r, counterexample |-> [input_word |-> w.input_word, output_word |-> r.out]]

RECURSIVE WalkLoop(_, _, _, _, _, _)
\* the restart of find_counterexample after __check_equivalence, whose
\* resolve_query ended in the program state r
Restarted(tch, hyp, tape, i, w, r) ==
    IF r.exc # NoExc THEN [m |-> r, counterexample |-> NoCounterexample]
    ELSE IF r.out # w.hypothesis_output_word
    THEN [m |-> r, counterexample |-> [input_word |-> w.input_word, output_word |-> r.out]]
    ELSE WalkLoop(tch, r, hyp, tape, i + 1, walk(hyp, StartWalk(hyp), tape[i].pick))

\* RandomWalkMethod.find_counterexample: the loop "while i_step <
\* self.max_steps", which returns None when it ends
WalkLoop(tch, m, hyp, tape, i, w) ==
    IF i > Len(tape) THEN [m |-> m, counterexample |-> NoCounterexample]
    ELSE IF w.first_step_after_restart
    THEN WalkLoop(tch, m, hyp, tape, i + 1,
                  walk(hyp, [w EXCEPT !.first_step_after_restart = FALSE], tape[i].pick))
    ELSE IF w.force_restart \/ tape[i].restart
    THEN Restarted(tch, hyp, tape, i, w, resolve_query(tch, m, w.input_word))
    ELSE WalkLoop(tch, m, hyp, tape, i + 1, walk(hyp, w, tape[i].pick))

\* RandomWalkMethod.find_counterexample with max_steps = Len(tape)
random_walk_find_counterexample(tch, m, hyp, tape) ==
    WalkLoop(tch, m, hyp, tape, 1, StartWalk(hyp))

\* ------------------------------------------------------------------------
\* eqtests/MultipleEqtests.py
\* An oracle is [method, bdist, tape]: method "wp", "bdist" or "random_walk".
\* ------------------------------------------------------------------------

\* eqmethod.find_counterexample(hypothesis)
oracle_find_counterexample(tch, m, hyp, eqmethod) ==
    IF eqmethod.method = "wp" THEN find_counterexample(tch, m, hyp)
    ELSE IF eqmethod.method = "bdist"
    THEN bdist_find_counterexample(tch, m, hyp, eqmethod.bdist)
    ELSE random_walk_find_counterexample(tch, m, hyp, eqmethod.tape)

RECURSIVE MultipleLoop(_, _, _, _, _)
\* a mutant of the body of the loop: only the last oracle returns
MultipleTested_last_oracle(tch, hyp, eqtests, i, r) ==
    IF r.m.exc # NoExc \/ i = Len(eqtests) THEN r
    ELSE MultipleLoop(tch, r.m, hyp, eqtests, i + 1)

\* the body of the loop of MultipleEqtests.find_counterexample after
\* eqmethod.find_counterexample(hypothesis), which gave r
MultipleTested(tch, hyp, eqtests, i, r) ==
    IF r.m.exc # NoExc \/ r.counterexample # NoCounterexample THEN r
    ELSE MultipleLoop(tch, r.m, hyp, eqtests, i + 1)

\* MultipleEqtests.find_counterexample: the loop "for eqmethod in self.eqtests"
MultipleLoop(tch, m, hyp, eqtests, i) ==
    IF i > Len(eqtests) THEN [m |-> m, counterexample |-> NoCounterexample]
    ELSE MultipleTested(tch, hyp, eqtests, i,
                        oracle_find_counterexample(tch, m, hyp, eqtests[i]))

\* MultipleEqtests.find_counterexample
multiple_find_counterexample(tch, m, hyp, eqtests) == MultipleLoop(tch, m, hyp, eqtests, 1)

\* ------------------------------------------------------------------------
\* The targets the teacher answers from
\* ------------------------------------------------------------------------

\* the automaton with the given transition and output functions, every
\* state having its transitions in the order of the input letters
MakeAutomata(letters, initial_state, states, delta, lambda) ==
    [initial_state |-> initial_state,
     transitions |-> [q \in states |->
                         [i \in 1..Len(letters) |->
                             [input_letter |-> letters[i],
                              output_letter |-> lambda[q][letters[i]],
                              output_state |-> delta[q][letters[i]]]]]]

\* the output letters of the targets
OutputLetterSet == {"0", "1"}

\* the four-state automaton of the doctests of ObservationTable
FourStates ==
    MakeAutomata(<<"a", "b">>, "S0", {"S0", "S1", "S2", "S3"},
                 [S0 |-> [a |-> "S3", b |-> "S1"], S1 |-> [a |-> "S0", b |-> "S2"],
                  S2 |-> [a |-> "S3", b |-> "S0"], S3 |-> [a |-> "S3", b |-> "S3"]],
                 [S0 |-> [a |-> "0", b |-> "0"], S1 |-> [a |-> "1", b |-> "1"],
                  S2 |-> [a |-> "0", b |-> "0"], S3 |-> [a |-> "1", b |-> "1"]])

\* the states of the generated targets
TargetStates == {"S0", "S1", "S2"}

\* the transitions of the generated targets: every state is reached
Skeleton ==
    [S0 |-> [a |-> "S1", b |-> "S2"], S1 |-> [a |-> "S1", b |-> "S0"],
     S2 |-> [a |-> "S0", b |-> "S2"]]

\* the deterministic and complete automata over the letters a, b with the
\* transitions of Skeleton and every choice of the outputs of S1 and S2, the
\* initial state S0 answering 0 to both letters
GeneratedAutomata ==
    {MakeAutomata(<<"a", "b">>, "S0", TargetStates, Skeleton, lambda) :
        lambda \in {l \in [TargetStates -> [{"a", "b"} -> OutputLetterSet]] :
                       l["S0"] = [a |-> "0", b |-> "0"]}}

\* the transitions of the chain targets: the third state is two letters
\* away from the initial state
ChainSkeleton ==
    [S0 |-> [a |-> "S1", b |-> "S0"], S1 |-> [a |-> "S2", b |-> "S1"],
     S2 |-> [a |-> "S2", b |-> "S2"]]

\* the deterministic and complete automata over the letters a, b with the
\* transitions of ChainSkeleton and every choice of the outputs
ChainAutomata ==
    {MakeAutomata(<<"a", "b">>, "S0", TargetStates, ChainSkeleton, lambda) :
        lambda \in [TargetStates -> [{"a", "b"} -> OutputLetterSet]]}

\* ------------------------------------------------------------------------
\* The state machine
\* ------------------------------------------------------------------------

\* the most operations performed on one observation table
MaxOps == 4

\* the longest counterexample given to add_counterexample
MaxCELen == 2

\* the words over the input letters of length 1..n
RECURSIVE WordsUpTo(_)
WordsUpTo(n) ==
    IF n = 0 THEN {}
    ELSE LET shorter == WordsUpTo(n - 1)
         IN {<<l>> : l \in InputLetterSet}
            \cup shorter
            \cup {Append(w, l) : w \in shorter, l \in InputLetterSet}

\* the program state the operations start from
Cur ==
    [initialized |-> initialized, D |-> D, S |-> S, SA |-> SA, ot_content |-> ot_content,
     nodes |-> nodes, trace |-> trace, exc |-> NoExc, out |-> NoWord]

\* the program state an operation ends with
Becomes(m) ==
    /\ initialized' = m.initialized
    /\ D' = m.D
    /\ S' = m.S
    /\ SA' = m.SA
    /\ ot_content' = m.ot_content
    /\ nodes' = m.nodes
    /\ trace' = m.trace
    /\ exc' = m.exc

\* no hypothesis built yet
NoHypothesis == [exc |-> None, initial_state |-> None, transitions |-> << >>]

\* ObservationTable.__init__ and KnowledgeBase.__init__
InitTable ==
    /\ initialized = FALSE
    /\ D = << >>
    /\ S = << >>
    /\ SA = << >>
    /\ ot_content = EmptyDict
    /\ nodes = << >>
    /\ trace = << >>
    /\ exc = NoExc
    /\ op = [name |-> "new"]
    /\ hypothesis = NoHypothesis
    /\ counterexample = NoCounterexample
    /\ nops = 0

\* an observation table over a knowledge base whose teacher answers from a
\* deterministic and complete automaton and never fails
Init ==
    /\ input_letters = <<"a", "b">>
    /\ max_states = 0
    /\ teacher \in {[automata |-> A, faulty |-> {}] : A \in GeneratedAutomata \cup {FourStates}}
    /\ pc = "table"
    /\ InitTable

\* ot.initialize()
Initialize ==
    /\ nops < MaxOps
    /\ Becomes(initialize(teacher, Cur))
    /\ op' = [name |-> "initialize"]
    /\ nops' = nops + 1
    /\ UNCHANGED <<input_letters, max_states, teacher, hypothesis, counterexample, pc>>

\* ot.close_table()
CloseTable ==
    /\ nops < MaxOps
    /\ initialized
    /\ Becomes(close_table(teacher, Cur))
    /\ op' = [name |-> "close_table"]
    /\ nops' = nops + 1
    /\ UNCHANGED <<input_letters, max_states, teacher, hypothesis, counterexample, pc>>

\* ot.make_consistent(ot.find_inconsistency())
MakeConsistent ==
    /\ nops < MaxOps
    /\ initialized
    /\ \E inconsistency \in find_inconsistency(Cur) :
          /\ Becomes(make_consistent(teacher, Cur, inconsistency))
          /\ op' = [name |-> "make_consistent", inconsistency |-> inconsistency]
    /\ nops' = nops + 1
    /\ UNCHANGED <<input_letters, max_states, teacher, hypothesis, counterexample, pc>>

\* ot.add_counterexample(input_word, output_word), the output word being the
\* answer of the target to the input word
AddCounterexample ==
    /\ nops < MaxOps
    /\ initialized
    /\ \E input_word \in WordsUpTo(MaxCELen) :
          /\ Becomes(add_counterexample(teacher, Cur, input_word,
                                        submit_word(teacher.automata, input_word)))
          /\ op' = [name |-> "add_counterexample", input_word |-> input_word]
    /\ nops' = nops + 1
    /\ UNCHANGED <<input_letters, max_states, teacher, hypothesis, counterexample, pc>>

\* ot.build_hypothesis() on a closed and consistent table
BuildHypothesis ==
    /\ nops < MaxOps
    /\ initialized
    /\ is_closed(Cur)
    /\ find_inconsistency(Cur) = {}
    /\ hypothesis' \in {build_hypothesis(Cur, rep) : rep \in RepChoices(Cur)}
    /\ exc' = hypothesis'.exc
    /\ op' = [name |-> "build_hypothesis"]
    /\ nops' = nops + 1
    /\ UNCHANGED <<input_letters, max_states, teacher, initialized, D, S, SA, ot_content,
                   nodes, trace, counterexample, pc>>

Next ==
    \/ Initialize
    \/ CloseTable
    \/ MakeConsistent
    \/ AddCounterexample
    \/ BuildHypothesis

Spec == Init /\ [][Next]_vars

\* ------------------------------------------------------------------------
\* The observation table: properties of Spec
\* ------------------------------------------------------------------------

\* the words of S and SA
Rows == {S[i] : i \in 1..Len(S)} \cup {SA[i] : i \in 1..Len(SA)}

\* the number of distinct rows among the words of S
DistinctRows == Cardinality({get_row(Cur, S[i]) : i \in 1..Len(S)})

\* the table is closed and consistent
Stable == initialized /\ is_closed(Cur) /\ find_inconsistency(Cur) = {}

\* C2: against a deterministic teacher, after every public operation of the
\* table every cell (d, r) with d in D and r in S or SA is filled, and holds
\* the last output letter of the answer of the teacher to r + d
C2_CellsHoldLastOutput ==
    \A i \in 1..Len(D) : \A r \in Rows :
        /\ D[i] \in DOMAIN ot_content
        /\ r \in DOMAIN ot_content[D[i]]
        /\ LET reply == submit_word(teacher.automata, WordAdd(r, D[i]))
           IN ot_content[D[i]][r] = reply[Len(reply)]

\* C2 witness: a counterexample was added to a table that make_consistent
\* had given a third column
C2_Witness ==
    /\ op.name = "add_counterexample"
    /\ exc = NoExc
    /\ Len(D) >= 3
    /\ Len(S) >= 3
    /\ C2_CellsHoldLastOutput

\* C3: for every word s of S and every input letter a, the word s + a is in
\* exactly one of S and SA
C3_ExtensionInOneOfSAndSA ==
    \A i \in 1..Len(S) : \A a \in InputLetterSet :
        LET sa == WordAdd(S[i], <<a>>)
        IN (sa \in {S[j] : j \in 1..Len(S)}) # (sa \in {SA[j] : j \in 1..Len(SA)})

\* C3 witness: a table whose S holds a word and an extension of the word,
\* after an operation that moved words from SA to S
C3_Witness ==
    /\ op.name \in {"close_table", "add_counterexample"}
    /\ exc = NoExc
    /\ \E i \in 1..Len(S) : \E a \in InputLetterSet :
          /\ S[i] # EmptyWord
          /\ WordAdd(S[i], <<a>>) \in {S[j] : j \in 1..Len(S)}
    /\ \E i \in 1..Len(S) : \E a \in InputLetterSet :
          WordAdd(S[i], <<a>>) \in {SA[j] : j \in 1..Len(SA)}

\* C4: S and SA have no word in common after every public operation
C4_SAndSADisjoint ==
    {S[i] : i \in 1..Len(S)} \cap {SA[i] : i \in 1..Len(SA)} = {}

\* C4 witness: close_table or add_counterexample has moved a word of SA to S
C4_Witness ==
    /\ op.name \in {"close_table", "add_counterexample"}
    /\ exc = NoExc
    /\ Len(S) >= 3
    /\ Len(SA) >= 3
    /\ C4_SAndSADisjoint

\* C5: when close_table() returns, the table is closed
C5_ClosedAfterCloseTable ==
    (op.name = "close_table" /\ exc = NoExc) => is_closed(Cur)

\* C6: a call of make_consistent on an inconsistency that find_inconsistency
\* returned succeeds and strictly increases the number of distinct rows
\* among the words of S
C6_MakeConsistentSplitsARow ==
    [][(op'.name = "make_consistent" /\ nops' # nops)
          => (exc' = NoExc /\ DistinctRows' > DistinctRows)]_vars

\* C6 witness: make_consistent has added a column to an inconsistent table
C6_Witness ==
    /\ op.name = "make_consistent"
    /\ exc = NoExc
    /\ Len(D) = Len(input_letters) + 1
    /\ DistinctRows >= 2

\* C7: the hypothesis built from a closed and consistent table has one state
\* for every distinct row of S, its initial state is the class of the empty
\* word, and for every word s of S and every input letter a the state of s
\* has exactly one transition on a, which emits the cell (<<a>>, s) and
\* leads to the state of the row of s + a
C7_HypothesisFromTable ==
    op.name = "build_hypothesis" =>
        /\ exc = NoExc
        /\ Cardinality(DOMAIN hypothesis.transitions) = DistinctRows
        /\ DOMAIN hypothesis.transitions = {StateName(get_row(Cur, S[i])) : i \in 1..Len(S)}
        /\ hypothesis.initial_state = StateName(get_row(Cur, EmptyWord))
        /\ \A i \in 1..Len(S) : \A a \in InputLetterSet :
              LET ts == hypothesis.transitions[StateName(get_row(Cur, S[i]))]
                  hits == {k \in 1..Len(ts) : ts[k].input_letter = a}
              IN /\ Cardinality(hits) = 1
                 /\ \A k \in hits :
                       /\ ts[k].output_letter = ot_content[<<a>>][S[i]]
                       /\ ts[k].output_state = StateName(get_row(Cur, WordAdd(S[i], <<a>>)))

\* C7 witness: a hypothesis of several states built from a table whose S
\* has more words than the hypothesis has states
C7_Witness ==
    /\ op.name = "build_hypothesis"
    /\ exc = NoExc
    /\ Cardinality(DOMAIN hypothesis.transitions) >= 2
    /\ Len(S) > Cardinality(DOMAIN hypothesis.transitions)

\* C8: on a closed and consistent table the hypothesis does not depend on
\* the word that represents each class of rows
C8_RepresentativeIndependent ==
    Stable => Cardinality({build_hypothesis(Cur, rep) : rep \in RepChoices(Cur)}) = 1

\* C8 witness: a hypothesis was built from a table in which a class of rows
\* has several words, so that several representatives can be chosen
C8_Witness ==
    /\ op.name = "build_hypothesis"
    /\ exc = NoExc
    /\ Stable
    /\ Cardinality(RepChoices(Cur)) >= 2
    /\ DistinctRows >= 2

\* ------------------------------------------------------------------------
\* LSTAR.learn
\* ------------------------------------------------------------------------

\* the value of max_states given to LSTAR: no target has more states
LearnMaxStates == 4

\* LSTAR.__init__ with a knowledge base whose teacher answers from a
\* deterministic and complete automaton of at most max_states states
LearnInit ==
    /\ input_letters = <<"a", "b">>
    /\ max_states = LearnMaxStates
    /\ teacher \in {[automata |-> A, faulty |-> {}] :
                       A \in GeneratedAutomata \cup ChainAutomata \cup {FourStates}}
    /\ pc = "initialize"
    /\ InitTable

\* where learn goes after an operation that ended in the program state m
AfterOp(m, next_pc) == IF m.exc # NoExc THEN "raised" ELSE next_pc

\* learn goes on to next_pc in the program state m an operation ended with
Continue(m, next_pc) == Becomes(m) /\ pc' = AfterOp(m, next_pc)

\* learn: self.__initialize()
LearnInitialize ==
    /\ pc = "initialize"
    /\ Continue(initialize(teacher, Cur), "stabilise")
    /\ op' = [name |-> "initialize"]
    /\ nops' = nops + 1
    /\ UNCHANGED <<input_letters, max_states, teacher, hypothesis, counterexample>>

\* a mutant of the loop of LSTAR.build_hypothesis: the loop ends when the
\* table is found consistent, closed or not
StabiliseConsistency_consistent_only(f_closed, closed, inconsistencies) ==
    IF inconsistencies = {}
    THEN /\ Continue(closed, "build_hypothesis")
         /\ op' = [name |-> "stabilise", f_closed |-> f_closed, f_consistent |-> TRUE]
    ELSE /\ \E inconsistency \in inconsistencies :
               Continue(make_consistent(teacher, closed, inconsistency), "stabilise")
         /\ op' = [name |-> "stabilise", f_closed |-> f_closed, f_consistent |-> FALSE]

\* the second half of an iteration of the loop of LSTAR.build_hypothesis, in
\* the program state closed: find_inconsistency, and make_consistent on the
\* inconsistency found
StabiliseConsistency(f_closed, closed, inconsistencies) ==
    IF inconsistencies = {}
    THEN /\ Continue(closed, IF f_closed THEN "build_hypothesis" ELSE "stabilise")
         /\ op' = [name |-> "stabilise", f_closed |-> f_closed, f_consistent |-> TRUE]
    ELSE /\ \E inconsistency \in inconsistencies :
               Continue(make_consistent(teacher, closed, inconsistency), "stabilise")
         /\ op' = [name |-> "stabilise", f_closed |-> f_closed, f_consistent |-> FALSE]

\* the first half of an iteration: is_closed gave f_closed, and close_table
\* was called when it gave False
StabiliseClosed(f_closed, closed) ==
    StabiliseConsistency(f_closed, closed,
                         IF closed.exc # NoExc THEN {} ELSE find_inconsistency(closed))

\* one iteration of the loop "while not f_consistent or not f_closed" of
\* LSTAR.build_hypothesis; the loop ends after an iteration that found the
\* table closed and then consistent
Stabilise ==
    /\ pc = "stabilise"
    /\ StabiliseClosed(is_closed(Cur), IF is_closed(Cur) THEN Cur ELSE close_table(teacher, Cur))
    /\ nops' = nops + 1
    /\ UNCHANGED <<input_letters, max_states, teacher, hypothesis, counterexample>>

\* LSTAR.build_hypothesis after its loop:
\* return self.observation_table.build_hypothesis()
LearnBuildHypothesis ==
    /\ pc = "build_hypothesis"
    /\ hypothesis' \in {build_hypothesis(Cur, rep) : rep \in RepChoices(Cur)}
    /\ exc' = hypothesis'.exc
    /\ pc' = IF hypothesis'.exc # NoExc THEN "raised" ELSE "find_counterexample"
    /\ op' = [name |-> "build_hypothesis"]
    /\ nops' = nops + 1
    /\ UNCHANGED <<input_letters, max_states, teacher, initialized, D, S, SA, ot_content,
                   nodes, trace, counterexample>>

\* learn after find_counterexample, which gave r.counterexample and ended
\* with the program state r.m
Tested(r) ==
    /\ Continue(r.m, IF r.counterexample = NoCounterexample THEN "returned" ELSE "fix_hypothesis")
    /\ counterexample' = r.counterexample

\* learn: counterexample = self.find_counterexample(hypothesis), and the
\* test "if counterexample is not None"
LearnFindCounterexample ==
    /\ pc = "find_counterexample"
    /\ Tested(find_counterexample(teacher, Cur, hypothesis))
    /\ op' = [name |-> "find_counterexample"]
    /\ nops' = nops + 1
    /\ UNCHANGED <<input_letters, max_states, teacher, hypothesis>>

\* learn: self.fix_hypothesis(counterexample)
LearnFixHypothesis ==
    /\ pc = "fix_hypothesis"
    /\ Continue(add_counterexample(teacher, Cur, counterexample.input_word,
                                  counterexample.output_word),
                "stabilise")
    /\ op' = [name |-> "fix_hypothesis"]
    /\ nops' = nops + 1
    /\ UNCHANGED <<input_letters, max_states, teacher, hypothesis, counterexample>>

LearnNext ==
    \/ LearnInitialize
    \/ Stabilise
    \/ LearnBuildHypothesis
    \/ LearnFindCounterexample
    \/ LearnFixHypothesis

LearnSpec == LearnInit /\ [][LearnNext]_vars

\* ------------------------------------------------------------------------
\* LSTAR.build_hypothesis and LSTAR.fix_hypothesis called in turn, with the
\* counterexamples given by the caller
\* ------------------------------------------------------------------------

\* the longest counterexample given to fix_hypothesis
MaxFixLen == 3

\* the caller compares the hypothesis with the target and builds a
\* counterexample: an input word that the two answer differently, with the
\* output word of the target
GivenCounterexample ==
    /\ pc = "find_counterexample"
    /\ \E input_word \in WordsUpTo(MaxFixLen) :
          /\ play_query(hypothesis, input_word).output_word
                 # submit_word(teacher.automata, input_word)
          /\ counterexample' = [input_word |-> input_word,
                                output_word |-> submit_word(teacher.automata, input_word)]
    /\ pc' = "fix_hypothesis"
    /\ op' = [name |-> "given_counterexample"]
    /\ nops' = nops + 1
    /\ UNCHANGED <<input_letters, max_states, teacher, initialized, D, S, SA, ot_content,
                   nodes, trace, exc, hypothesis>>

FixNext ==
    \/ LearnInitialize
    \/ Stabilise
    \/ LearnBuildHypothesis
    \/ GivenCounterexample
    \/ LearnFixHypothesis

FixSpec == LearnInit /\ [][FixNext]_vars

\* C9: when a hypothesis was built from a closed and consistent table and a
\* counterexample to it was added to the table, the hypothesis built after
\* the table was stabilised has strictly more states and answers the input
\* word of the counterexample with its output word
C9_CounterexampleGrowsHypothesis ==
    [][(pc = "build_hypothesis" /\ pc' # pc /\ counterexample # NoCounterexample)
          => /\ pc' = "find_counterexample"
             /\ Len(get_states(hypothesis')) > Len(get_states(hypothesis))
             /\ play_query(hypothesis', counterexample.input_word).output_word
                    = counterexample.output_word]_vars

\* C9 witness: a second hypothesis was built, after a counterexample of three
\* letters was added to the table of the first
C9_Witness ==
    /\ pc = "find_counterexample"
    /\ op.name = "build_hypothesis"
    /\ counterexample # NoCounterexample
    /\ Len(counterexample.input_word) = 3
    /\ Len(get_states(hypothesis)) >= 3

\* ------------------------------------------------------------------------
\* LSTAR.learn: properties of LearnSpec
\* ------------------------------------------------------------------------

\* the transition of the state q of an automaton on a letter
TransitionOf(automata, q, letter) == automata.transitions[q][VisitIndex(automata, q, letter)]

RECURSIVE ReachablePairs(_, _, _)
\* the pairs of states that two complete automata reach on the same input
\* word, the pairs of seen being reached already
ReachablePairs(left, right, seen) ==
    LET next == {<<TransitionOf(left, p[1], a).output_state,
                   TransitionOf(right, p[2], a).output_state>> :
                    p \in seen, a \in InputLetterSet}
    IN IF next \subseteq seen THEN seen
       ELSE ReachablePairs(left, right, seen \cup next)

\* the two automata are complete over the input letters wherever an input
\* word leads them and answer every input word with the same output word
Equivalent(left, right) ==
    /\ left.initial_state \in DOMAIN left.transitions
    /\ \A q \in DOMAIN left.transitions : \A a \in InputLetterSet :
          /\ VisitIndex(left, q, a) # 0
          /\ TransitionOf(left, q, a).output_state \in DOMAIN left.transitions
    /\ \A p \in ReachablePairs(left, right, {<<left.initial_state, right.initial_state>>}) :
          \A a \in InputLetterSet :
              TransitionOf(left, p[1], a).output_letter
                  = TransitionOf(right, p[2], a).output_letter

\* C1: the automaton that learn returns answers every input word as the
\* target does, the target being deterministic and complete with at most
\* max_states states
C1_LearnReturnsTheTarget ==
    pc = "returned" => Equivalent(hypothesis, teacher.automata)

\* ------------------------------------------------------------------------
\* KnowledgeBase.resolve_query called by a client, the teacher raising on
\* some input words
\* ------------------------------------------------------------------------

\* the most queries resolved by one knowledge base
MaxQueries == 3

\* the longest input word of a query
MaxQueryLen == 2

\* the sets of input words on which submit_word can raise
FaultyChoices == SUBSET {<<"a">>, <<"b", "a">>}

\* KnowledgeBase.__init__ of an ActiveKnowledgeBase
KBInit ==
    /\ input_letters = <<"a", "b">>
    /\ max_states = 0
    /\ teacher \in {[automata |-> FourStates, faulty |-> F] : F \in FaultyChoices}
    /\ pc = "knowledge_base"
    /\ InitTable

\* the end of kb.resolve_query(query), which ended in the program state m:
\* query.output_word is m.out, NoWord when it was not set
Resolved(input_word, m) ==
    /\ Becomes(m)
    /\ op' = [name |-> "resolve_query", input_word |-> input_word, output_word |-> m.out]

\* kb.resolve_query(OutputQuery(input_word))
ResolveQuery ==
    /\ nops < MaxQueries
    /\ \E input_word \in WordsUpTo(MaxQueryLen) :
          Resolved(input_word, resolve_query(teacher, Cur, input_word))
    /\ nops' = nops + 1
    /\ UNCHANGED <<input_letters, max_states, teacher, hypothesis, counterexample, pc>>

KBNext == ResolveQuery

KBSpec == KBInit /\ [][KBNext]_vars

\* ------------------------------------------------------------------------
\* KnowledgeBase: properties of KBSpec
\* ------------------------------------------------------------------------

\* the number of calls of submit_word with the word
Submitted(word) ==
    Cardinality({i \in 1..Len(trace) : trace[i] = <<"submit_word", word>>})

MaxTreeOps == 2

\* the longest word added to the knowledge tree
MaxTreeLen == 2

\* the output letters of the words added to the tree: a letter, and the
\* empty letter (which a teacher answers in place of a missing output)
TreeOutputLetterSet == {"0", EmptyLetter}

\* the sequences of 1..n letters of the set
RECURSIVE LettersUpTo(_, _)
LettersUpTo(letters, n) ==
    IF n = 0 THEN {}
    ELSE LET shorter == LettersUpTo(letters, n - 1)
         IN {<<l>> : l \in letters}
            \cup shorter
            \cup {Append(w, l) : w \in shorter, l \in letters}

\* the input words given to the tree
TreeInputWords == LettersUpTo(InputLetterSet, MaxTreeLen)

\* the output words given to the tree
TreeOutputWords == LettersUpTo(TreeOutputLetterSet, MaxTreeLen)

\* the pairs given to add_word: an input word with an output word of the
\* same length, or with an output word of one letter
TreePairs ==
    {p \in TreeInputWords \X TreeOutputWords : Len(p[2]) = Len(p[1]) \/ Len(p[2]) = 1}

\* KnowledgeTree.__init__
TreeInit ==
    /\ input_letters = <<"a", "b">>
    /\ max_states = 0
    /\ teacher = [automata |-> FourStates, faulty |-> {}]
    /\ pc = "knowledge_tree"
    /\ InitTable

\* the end of tree.add_word(input_word, output_word), which gave added
TreeAdded(input_word, output_word, added) ==
    /\ nodes' = added.nodes
    /\ exc' = added.exc
    /\ op' = [name |-> "add_word", input_word |-> input_word, output_word |-> output_word]

\* tree.add_word(input_word, output_word)
TreeAddWord ==
    /\ pc = "knowledge_tree"
    /\ nops < MaxTreeOps
    /\ \E p \in TreePairs : TreeAdded(p[1], p[2], add_word(nodes, p[1], p[2]))
    /\ nops' = nops + 1
    /\ UNCHANGED <<input_letters, max_states, teacher, initialized, D, S, SA, ot_content,
                   trace, hypothesis, counterexample, pc>>

\* the end of tree.get_output_word(input_word), which gave found
TreeLookedUp(input_word, found) ==
    /\ exc' = IF found = NoWord THEN "NoPathFound" ELSE NoExc
    /\ op' = [name |-> "get_output_word", input_word |-> input_word, out |-> found]

\* tree.get_output_word(input_word)
TreeGetOutputWord ==
    /\ pc = "knowledge_tree"
    /\ nops < MaxTreeOps
    /\ \E u \in TreeInputWords : TreeLookedUp(u, get_output_word(nodes, u))
    /\ nops' = nops + 1
    /\ UNCHANGED <<input_letters, max_states, teacher, initialized, D, S, SA, ot_content,
                   nodes, trace, hypothesis, counterexample, pc>>

TreeNext ==
    \/ TreeAddWord
    \/ TreeGetOutputWord

TreeSpec == TreeInit /\ [][TreeNext]_vars

\* ------------------------------------------------------------------------
\* KnowledgeTree: properties of TreeSpec
\* ------------------------------------------------------------------------

\* the first n letters of a word
Prefix(w, n) == SubSeq(w, 1, n)

\* the output letters the tree holds on the path of the input word, NoWord
\* when the tree has no such path
RECURSIVE StoredOutput(_, _, _)
StoredOutput(tree, n, letters) ==
    LET c == FirstChild(tree, n, letters[1])
    IN IF c = 0 THEN NoWord
       ELSE IF Len(letters) = 1 THEN <<tree[c].output_letter>>
       ELSE LET rest == StoredOutput(tree, c, Tail(letters))
            IN IF rest = NoWord THEN NoWord ELSE <<tree[c].output_letter>> \o rest

\* the pair (u, v) disagrees with a pair the tree holds: the two input words
\* share a prefix on which the output words differ
ConflictsWithStored(tree, u, v) ==
    <<u, v>> \in {p \in TreePairs :
        /\ Len(p[1]) = Len(p[2])
        /\ {k \in 1..Len(p[1]) :
               /\ StoredOutput(tree, 0, Prefix(p[1], k)) # NoWord
               /\ StoredOutput(tree, 0, Prefix(p[1], k)) # Prefix(p[2], k)} # {}}

\* C11: adding a pair whose input word shares a prefix with an input word
\* of the tree, with an output word that differs from the stored one on the
\* shared prefix, raises "Incompatible path found" and leaves the tree as it
\* was: no node is added or changed
C11_ConflictLeavesTreeUnchanged ==
    [][(op'.name = "add_word" /\ pc = "knowledge_tree"
          /\ ConflictsWithStored(nodes, op'.input_word, op'.output_word))
         => (exc' = "IncompatiblePath" /\ nodes' = nodes)]_vars

\* C11 witness: a pair of two letters was refused by a tree that holds
\* the same input word with another second output letter
C11_Witness ==
    /\ pc = "knowledge_tree"
    /\ op.name = "add_word"
    /\ exc = "IncompatiblePath"
    /\ Len(op.input_word) = 2
    /\ StoredOutput(nodes, 0, op.input_word) # NoWord
    /\ StoredOutput(nodes, 0, op.input_word)[1] = op.output_word[1]
    /\ StoredOutput(nodes, 0, op.input_word)[2] # op.output_word[2]

\* C12: after add_word(u, v) succeeded on words of the same length, at
\* least one letter long, get_output_word(u) returns v
C12_LookupReturnsInserted ==
    (pc = "knowledge_tree" /\ op.name = "add_word" /\ exc = NoExc)
        => get_output_word(nodes, op.input_word) = op.output_word

\* ------------------------------------------------------------------------
\* KnowledgeBase: the tree as a cache, properties of KBSpec
\* ------------------------------------------------------------------------

\* the calls of one execution of the word on the teacher
TeacherCalls(word) == <<<<"start_target">>, <<"submit_word", word>>, <<"stop_target">>>>

\* C13: resolve_query on an input word that is, or is a prefix of, an input
\* word of the knowledge tree sets output_word to the stored output letters
\* without calling the teacher; on a miss the teacher is called once, and
\* the answer it gives is in the tree when it is returned
C13_HitFromTreeMissFromTeacher ==
    [][(pc = "knowledge_base" /\ op'.name = "resolve_query")
         => IF StoredOutput(nodes, 0, op'.input_word) # NoWord
            THEN /\ trace' = trace
                 /\ nodes' = nodes
                 /\ exc' = NoExc
                 /\ op'.output_word = StoredOutput(nodes, 0, op'.input_word)
            ELSE /\ trace' = trace \o TeacherCalls(op'.input_word)
                 /\ exc' = NoExc =>
                       /\ op'.output_word = submit_word(teacher.automata, op'.input_word)
                       /\ StoredOutput(nodes', 0, op'.input_word) = op'.output_word]_vars

\* C13 witness: a word of one letter was resolved from the tree, which
\* holds it as the prefix of the only word the teacher was asked
C13_Witness ==
    /\ pc = "knowledge_base"
    /\ op.name = "resolve_query"
    /\ Len(op.input_word) = 1
    /\ Len(trace) = 3
    /\ Len(trace[2][2]) = 2
    /\ Prefix(trace[2][2], 1) = op.input_word
    /\ op.output_word = Prefix(submit_word(teacher.automata, trace[2][2]), 1)


\* ------------------------------------------------------------------------
\* The equivalence oracles of eqtests/, each called on the hypotheses that
\* LSTAR.build_hypothesis returns; the caller gives the query an oracle
\* returns to LSTAR.fix_hypothesis
\* ------------------------------------------------------------------------

\* the largest bdist of a BDistMethod
MaxBDist == 2

\* the largest max_steps of a RandomWalkMethod
MaxWalkSteps == 4

\* the outcomes of the random numbers of max_steps steps
Tapes == [1..MaxWalkSteps -> [restart : BOOLEAN, pick : 1..Len(input_letters)]]

\* the oracles: WpMethodEQ(kb, max_states, input_letters),
\* BDistMethod(kb, input_letters, bdist) and RandomWalkMethod(kb,
\* input_letters, max_steps, restart_probability) with a tape
WpOracle == [method |-> "wp", bdist |-> 0, tape |-> << >>]
BDistOracles == {[method |-> "bdist", bdist |-> bdist, tape |-> << >>] : bdist \in 1..MaxBDist}
RandomWalkOracles == {[method |-> "random_walk", bdist |-> 0, tape |-> tape] : tape \in Tapes}

\* the tapes of one walk: the walk restarts at the last step, where its
\* word is checked, and nowhere else
OneWalkTapes == {tape \in Tapes : \A i \in 1..MaxWalkSteps : tape[i].restart = (i = MaxWalkSteps)}

\* the lists of oracles given to MultipleEqtests: at most one of each
\* class, the random walk of the list following the given tape
EqtestsLists(tape) ==
    LET of(method) == IF method = "wp" THEN WpOracle
                      ELSE IF method = "bdist"
                      THEN [method |-> "bdist", bdist |-> MaxBDist, tape |-> << >>]
                      ELSE [method |-> "random_walk", bdist |-> 0, tape |-> tape]
        methods == {"wp", "bdist", "random_walk"}
        lists == UNION {[1..n -> methods] : n \in 0..3}
    IN {[i \in 1..Len(l) |-> of(l[i])] :
           l \in {l \in lists : \A i, j \in 1..Len(l) : l[i] = l[j] => i = j}}

\* the chain targets that answer 0 to the letter b in every state
QuietChainAutomata ==
    {A \in ChainAutomata :
        \A q \in TargetStates : \A i \in 1..Len(A.transitions[q]) :
            A.transitions[q][i].input_letter = "b" => A.transitions[q][i].output_letter = "0"}

\* LSTAR.__init__ as in LearnInit, and the oracles on the same knowledge base
EqInit ==
    /\ input_letters = <<"a", "b">>
    /\ max_states = LearnMaxStates
    /\ teacher \in {[automata |-> A, faulty |-> {}] :
                       A \in QuietChainAutomata \cup {FourStates}}
    /\ pc = "initialize"
    /\ InitTable

\* the caller after eqtest.find_counterexample(hypothesis), which gave r
EqTested(class, eqtests, r) ==
    /\ Tested(r)
    /\ op' = [name |-> class, eqtests |-> eqtests]

\* WpMethodEQ.find_counterexample(hypothesis)
EqWp ==
    /\ pc = "find_counterexample"
    /\ EqTested("WpMethodEQ", WpOracle, find_counterexample(teacher, Cur, hypothesis))
    /\ nops' = nops + 1
    /\ UNCHANGED <<input_letters, max_states, teacher, hypothesis>>

\* BDistMethod.find_counterexample(hypothesis)
EqBDist ==
    /\ pc = "find_counterexample"
    /\ \E eqtest \in BDistOracles :
          EqTested("BDistMethod", eqtest, bdist_find_counterexample(teacher, Cur, hypothesis, eqtest.bdist))
    /\ nops' = nops + 1
    /\ UNCHANGED <<input_letters, max_states, teacher, hypothesis>>

\* RandomWalkMethod.find_counterexample(hypothesis)
EqRandomWalk ==
    /\ pc = "find_counterexample"
    /\ \E eqtest \in RandomWalkOracles :
          EqTested("RandomWalkMethod", eqtest, random_walk_find_counterexample(teacher, Cur, hypothesis, eqtest.tape))
    /\ nops' = nops + 1
    /\ UNCHANGED <<input_letters, max_states, teacher, hypothesis>>

\* MultipleEqtests.find_counterexample(hypothesis), the random walk of the
\* list making one walk
EqMultiple ==
    /\ pc = "find_counterexample"
    /\ \E tape \in OneWalkTapes : \E eqtests \in EqtestsLists(tape) :
          EqTested("MultipleEqtests", eqtests, multiple_find_counterexample(teacher, Cur, hypothesis, eqtests))
    /\ nops' = nops + 1
    /\ UNCHANGED <<input_letters, max_states, teacher, hypothesis>>

EqNext ==
    \/ LearnInitialize
    \/ Stabilise
    \/ LearnBuildHypothesis
    \/ EqWp
    \/ EqBDist
    \/ EqRandomWalk
    \/ EqMultiple
    \/ LearnFixHypothesis

EqSpec == EqInit /\ [][EqNext]_vars


\* the classes of the equivalence oracles
OracleClasses == {"WpMethodEQ", "BDistMethod", "RandomWalkMethod", "MultipleEqtests"}

\* the last operation was find_counterexample of an oracle of the class,
\* and it returned a query
Returned(class) == op.name = class /\ counterexample # NoCounterexample

\* the query has an input word and an output word, the output word is the
\* answer of the target to the input word and the knowledge tree holds it,
\* and the hypothesis answers the input word differently
IsCounterexample(query) ==
    /\ query.input_word # NoWord /\ Len(query.input_word) > 0
    /\ query.output_word # NoWord /\ Len(query.output_word) = Len(query.input_word)
    /\ query.output_word = submit_word(teacher.automata, query.input_word)
    /\ StoredOutput(nodes, 0, query.input_word) = query.output_word
    /\ play_query(hypothesis, query.input_word).exc = NoExc
    /\ play_query(hypothesis, query.input_word).output_word # query.output_word

\* C14: a query that an equivalence oracle (Wp-method, random walk,
\* bounded distinguisher or composite) returns for a hypothesis has an
\* input word and an output word, its output word is the reply of the
\* target obtained through the knowledge base, and the replay of its
\* input word on the hypothesis from the initial state gives another word.
C14_ReturnedQueryIsCounterexample ==
    \A class \in OracleClasses : Returned(class) => IsCounterexample(counterexample)

\* a random walk of three letters returned its query
C14_Witness ==
    /\ Returned("RandomWalkMethod")
    /\ Len(counterexample.input_word) = 3
    /\ IsCounterexample(counterexample)


\* the words w_i and w_i' of BDistMethod.find_counterexample for the state
\* q and the letter: the representative of q followed by the letter, and
\* the representative of the state the letter leads to from q
BDistPair(hyp, reps, q, letter) ==
    [w_i |-> WordAdd(reps[q], <<letter>>),
     w_i_prime |-> reps[last_letter(play_word(hyp, <<letter>>, q).visited_states)]]

\* the pairs of words of the hypothesis that BDistMethod compares
BDistPairs(hyp) ==
    {pair \in {BDistPair(hyp, get_representatives(hyp), q, letter) :
                  q \in DOMAIN get_representatives(hyp), letter \in InputLetterSet} :
        pair.w_i # pair.w_i_prime}

\* the suffixes on which the last outputs of the target after w_i and
\* after w_i' differ
Distinguishing(pair, suffixes) ==
    {k \in 1..Len(suffixes) :
        last_letter(submit_word(teacher.automata, WordAdd(pair.w_i, suffixes[k])))
            # last_letter(submit_word(teacher.automata, WordAdd(pair.w_i_prime, suffixes[k])))}

\* the query BDistMethod.find_counterexample returns for the pair, eq being
\* what __check_equivalence gave for it
QueryChosen(hyp, eq) ==
    ChooseQuery(eq, play_query(hyp, eq.query_i.input_word),
                play_query(hyp, eq.query_i_prime.input_word)).counterexample

\* the query chosen is the query of w_i . s or the query of w_i' . s for a
\* suffix s that distinguishes them, and a counterexample
ChosenDisagrees(pair, suffixes, eq, query) ==
    /\ eq.m.exc = NoExc
    /\ eq.suffix \in {suffixes[k] : k \in Distinguishing(pair, suffixes)}
    /\ \/ query = [input_word |-> WordAdd(pair.w_i, eq.suffix),
                   output_word |-> submit_word(teacher.automata, WordAdd(pair.w_i, eq.suffix))]
       \/ query = [input_word |-> WordAdd(pair.w_i_prime, eq.suffix),
                   output_word |-> submit_word(teacher.automata,
                                               WordAdd(pair.w_i_prime, eq.suffix))]
    /\ play_query(hypothesis, query.input_word).exc = NoExc
    /\ play_query(hypothesis, query.input_word).output_word # query.output_word

\* the property of C15 for one pair of words, eq being what
\* __check_equivalence gives for it
SuffixCase(pair, suffixes, eq) ==
    Distinguishing(pair, suffixes) # {}
        => ChosenDisagrees(pair, suffixes, eq, QueryChosen(hypothesis, eq))

\* C15: in the bounded-distinguisher oracle, when the last output of the
\* target on w_i . s differs from its last output on w_i' . s for a suffix
\* s of the precomputed list, the query the oracle returns for the pair
\* (the query of w_i . s or the query of w_i' . s) is one whose output, the
\* output of the target, differs from the replay of its input word on the
\* hypothesis.
C15_DistinguishedPairGivesCounterexample ==
    pc = "find_counterexample"
        => \A bdist \in 1..MaxBDist : \A pair \in BDistPairs(hypothesis) :
              SuffixCase(pair, suffix_list(bdist),
                         CheckSuffixes(teacher, Cur, pair.w_i, pair.w_i_prime,
                                       suffix_list(bdist), 1))

\* the hypothesis and the target give the same last output on the
\* representative of every state followed by every letter: find_counterexample
\* returns no query before __check_equivalence
TransitionsAgree(hyp, reps) ==
    \A q \in DOMAIN reps : \A letter \in InputLetterSet :
        last_letter(play_query(hyp, WordAdd(reps[q], <<letter>>)).output_word)
            = last_letter(submit_word(teacher.automata, WordAdd(reps[q], <<letter>>)))

\* the oracle returned the query of w_i' . s, the hypothesis and the target
\* giving the same output word on w_i . s and the same last outputs on
\* the words w_i
C15_Witness ==
    /\ Returned("BDistMethod")
    /\ IsCounterexample(counterexample)
    /\ TransitionsAgree(hypothesis, get_representatives(hypothesis))
    /\ \E pair \in BDistPairs(hypothesis) :
          \E k \in Distinguishing(pair, suffix_list(op.eqtests.bdist)) :
             /\ counterexample.input_word = WordAdd(pair.w_i_prime, suffix_list(op.eqtests.bdist)[k])
             /\ play_query(hypothesis, WordAdd(pair.w_i, suffix_list(op.eqtests.bdist)[k])).output_word
                    = submit_word(teacher.automata,
                                  WordAdd(pair.w_i, suffix_list(op.eqtests.bdist)[k]))


\* what each oracle of the list returns for the hypothesis when it is
\* called alone in the program state m
AloneResults(m, eqtests) ==
    [i \in 1..Len(eqtests) |->
        oracle_find_counterexample(teacher, m, hypothesis, eqtests[i]).counterexample]

\* the oracles of the list that return a query when called alone
Finding(results) == {i \in 1..Len(results) : results[i] # NoCounterexample}

\* the least element of a non-empty set of numbers
Least(set) == CHOOSE i \in set : \A j \in set : i <= j

\* the knowledge tree and the calls of the teacher in the program state m
TreeAndCalls(m) == <<m.nodes, m.trace>>

\* the composite called in the program state m returned returned_query and
\* left the knowledge tree and the calls of the teacher of after: the query
\* is the first one of results that is not None, and after is what the
\* composite of the oracles up to that one leaves; None is returned when no
\* oracle finds a query
FirstFinding(eqtests, results, returned_query, after, m) ==
    IF Finding(results) = {}
    THEN returned_query = NoCounterexample
    ELSE /\ returned_query = results[Least(Finding(results))]
         /\ after = TreeAndCalls(multiple_find_counterexample(
                                     teacher, m, hypothesis,
                                     SubSeq(eqtests, 1, Least(Finding(results)))).m)

\* C16: the composite oracle consults its oracles in the order of the list
\* and returns the first counterexample that is not None without
\* consulting the oracles after it; it returns None only when every oracle
\* of the list returns None, as they all do when the list is empty.
C16_CompositeReturnsFirst ==
    [][op'.name = "MultipleEqtests"
          => /\ exc' = NoExc
             /\ FirstFinding(op'.eqtests, AloneResults(Cur, op'.eqtests), counterexample',
                             <<nodes', trace'>>, Cur)]_vars

\* the composite of three oracles returned the query of the second one:
\* the first one finds none, and the third one finds another query
C16_WitnessResults(results) ==
    /\ results[1] = NoCounterexample
    /\ results[2] # NoCounterexample
    /\ results[3] \notin {NoCounterexample, results[2]}
    /\ counterexample = results[2]

C16_Witness ==
    /\ op.name = "MultipleEqtests"
    /\ Len(op.eqtests) = 3
    /\ C16_WitnessResults(AloneResults(Cur, op.eqtests))


\* ------------------------------------------------------------------------
\* ActiveKnowledgeBase._execute_word: the calls of the teacher, properties
\* of KBSpec
\* ------------------------------------------------------------------------

\* the name of the i-th call made to the teacher, None outside the trace
CallName(calls, i) == IF i \in 1..Len(calls) THEN calls[i][1] ELSE None

\* C17: every call of the teacher is bracketed: each call of submit_word
\* comes immediately after a call of start_target and is followed by
\* exactly one call of stop_target before any other call of start_target,
\* on every path, the one where submit_word raises included.
C17_TeacherCallsBracketed ==
    \A i \in 1..Len(trace) :
        /\ CallName(trace, i) = "start_target" => CallName(trace, i + 1) = "submit_word"
        /\ CallName(trace, i) = "submit_word"
              => CallName(trace, i - 1) = "start_target" /\ CallName(trace, i + 1) = "stop_target"
        /\ CallName(trace, i) = "stop_target"
              => /\ CallName(trace, i - 1) = "submit_word"
                 /\ CallName(trace, i + 1) \in {"start_target", None}

\* submit_word raised on a word, stop_target was called after it, and the
\* teacher was started again for another word
C17_Witness ==
    /\ Len(trace) = 6
    /\ trace[2][2] \in teacher.faulty
    /\ SubSeq(trace, 1, 3) = TeacherCalls(trace[2][2])
    /\ SubSeq(trace, 4, 6) = TeacherCalls(trace[5][2])
    /\ trace[5][2] # trace[2][2]


\* ------------------------------------------------------------------------
\* LSTAR.learn with a teacher whose submit_word raises on some word
\* ------------------------------------------------------------------------

\* the longest input word on which submit_word raises
MaxFaultLen == 3

\* LSTAR.__init__ with a knowledge base whose teacher raises on at most
\* one input word
FaultInit ==
    /\ input_letters = <<"a", "b">>
    /\ max_states = LearnMaxStates
    /\ teacher \in {[automata |-> A, faulty |-> F] :
                       A \in GeneratedAutomata \cup QuietChainAutomata \cup {FourStates},
                       F \in {{}} \cup {{word} : word \in WordsUpTo(MaxFaultLen)}}
    /\ pc = "initialize"
    /\ InitTable

FaultSpec == FaultInit /\ [][LearnNext]_vars

\* the calls of the teacher that the step makes
NewCalls == SubSeq(trace', Len(trace) + 1, Len(trace'))

\* the calls of submit_word, among calls, on which the teacher raises
FaultyCalls(calls) ==
    {i \in 1..Len(calls) : calls[i][1] = "submit_word" /\ calls[i][2] \in teacher.faulty}

RECURSIVE AnsweredTree(_, _, _)
\* the knowledge tree that holds the words that the teacher answered in
\* the calls from the i-th on, added to tree in their order
AnsweredTree(tree, calls, i) ==
    IF i > Len(calls) THEN tree
    ELSE IF calls[i][1] = "submit_word" /\ calls[i][2] \notin teacher.faulty
    THEN AnsweredTree(add_word(tree, calls[i][2],
                               submit_word(teacher.automata, calls[i][2])).nodes,
                      calls, i + 1)
    ELSE AnsweredTree(tree, calls, i + 1)

\* C18: when submit_word raises while a query is resolved, the operation
\* of the table and learn() end with a fault instead of going on, the
\* knowledge tree is as it was before the call, without any part of the
\* path of the word, and the operation that fails does not call the
\* teacher again for the word.
C18_TeacherFaultEndsLearn ==
    [][FaultyCalls(NewCalls) # {}
          => /\ exc' # NoExc
             /\ pc' = "raised"
             /\ FaultyCalls(NewCalls) = {Len(NewCalls) - 1}
             /\ nodes' = AnsweredTree(nodes, NewCalls, 1)
             /\ \A i \in FaultyCalls(NewCalls) :
                   StoredOutput(nodes', 0, NewCalls[i][2]) = NoWord]_vars

\* an operation of the table ended with a fault after the teacher raised on
\* a word of two letters, the tree holding its first letter
C18_Witness ==
    /\ pc = "raised"
    /\ exc = "NotQueried"
    /\ Len(trace) > 3
    /\ trace[Len(trace) - 1][1] = "submit_word"
    /\ trace[Len(trace) - 1][2] \in teacher.faulty
    /\ Len(trace[Len(trace) - 1][2]) = 2
    /\ StoredOutput(nodes, 0, trace[Len(trace) - 1][2]) = NoWord
    /\ StoredOutput(nodes, 0, Prefix(trace[Len(trace) - 1][2], 1)) # NoWord


\* ------------------------------------------------------------------------
\* LSTAR.build_hypothesis: the loop that closes the table and makes it
\* consistent, properties of FixSpec
\* ------------------------------------------------------------------------

\* the row of the word in the table
RowOf(word) == get_row(Cur, word)

\* every row of SA is the row of a word of S
ClosedTable == \A i \in 1..Len(SA) : \E j \in 1..Len(S) : RowOf(SA[i]) = RowOf(S[j])

\* two words of S with the same row have the same rows after every letter
ConsistentTable ==
    \A i, j \in 1..Len(S) :
        RowOf(S[i]) = RowOf(S[j])
            => \A letter \in InputLetterSet :
                  RowOf(WordAdd(S[i], <<letter>>)) = RowOf(WordAdd(S[j], <<letter>>))

\* C19: whenever the loop of LSTAR.build_hypothesis ends and the table is
\* given to the extraction of the hypothesis, the table is closed and
\* consistent.
C19_StableWhenLoopEnds ==
    pc = "build_hypothesis" => ClosedTable /\ ConsistentTable

\* the loop ended on a table that it closed and made consistent: the table
\* has more columns than letters and more than two words in S
C19_Witness ==
    /\ pc = "build_hypothesis"
    /\ op.name = "stabilise"
    /\ Len(D) > Len(input_letters)
    /\ Len(S) > 2
    /\ ClosedTable /\ ConsistentTable


\* the rows of the words of S in the program state m
RowsOfS(m) == {get_row(m, m.S[i]) : i \in 1..Len(m.S)}

\* the number of states of the target
NbTargetStates == Cardinality(DOMAIN teacher.automata.transitions)

\* close_table, called on the table of m that is not closed, gave closed: S
\* has a row that it had not
CloseStep(m, closed) ==
    is_closed(m) \/ (RowsOfS(closed) \ RowsOfS(m) # {}
                       /\ Cardinality(RowsOfS(closed)) > Cardinality(RowsOfS(m)))

\* one iteration of the loop that does not end it: closed is the table
\* after the first half, fixed the table after make_consistent when the
\* iteration called it (f_consistent FALSE)
LoopStep(m, closed, fixed, f_consistent) ==
    /\ CloseStep(m, closed)
    /\ ~f_consistent => Cardinality(RowsOfS(fixed)) > Cardinality(RowsOfS(closed))
    /\ Cardinality(RowsOfS(fixed)) > Cardinality(RowsOfS(m))

\* C20: against a deterministic and complete Mealy target with finitely
\* many states the loop of LSTAR.build_hypothesis terminates: every call of
\* close_table introduces at least one new row in S, every call of
\* make_consistent strictly increases the number of distinct rows of S,
\* and this number is at most the number of states of the target, so that
\* the loop ends after at most that many iterations.
C20_LoopProgresses ==
    /\ [](Cardinality(RowsOfS(Cur)) <= NbTargetStates)
    /\ [][(pc = "stabilise" /\ op'.name = "stabilise")
            => /\ exc' = NoExc
               /\ pc' \in {"stabilise", "build_hypothesis"}
               /\ pc' = "stabilise"
                     => LoopStep(Cur, IF is_closed(Cur) THEN Cur ELSE close_table(teacher, Cur),
                                 Cur', op'.f_consistent)]_vars

\* an iteration called make_consistent and the loop goes on, on a table
\* to which close_table had added a word before: S has more words than the
\* empty word and the prefixes of the counterexample
C20_Witness ==
    /\ pc = "stabilise"
    /\ op.name = "stabilise"
    /\ ~op.f_consistent
    /\ counterexample # NoCounterexample
    /\ Len(S) > 1 + Len(counterexample.input_word)
    /\ Cardinality(RowsOfS(Cur)) > 2


\* ------------------------------------------------------------------------
\* LSTAR.learn on the target of the doctest of LSTAR: three states over the
\* letters a, b, c
\* ------------------------------------------------------------------------

\* max_states of the doctest of LSTAR
DoctestMaxStates == 5

\* the longest input word on which the learned automaton is replayed
MaxReplayLen == 6

\* the transitions of the target of the doctest
CyclicSkeleton ==
    [S0 |-> [a |-> "S0", b |-> "S1", c |-> "S2"],
     S1 |-> [a |-> "S1", b |-> "S1", c |-> "S0"],
     S2 |-> [a |-> "S2", b |-> "S2", c |-> "S1"]]

\* the automaton of the doctest of LSTAR
CyclicTarget ==
    MakeAutomata(<<"a", "b", "c">>, "S0", TargetStates, CyclicSkeleton,
                 [S0 |-> [a |-> "1", b |-> "2", c |-> "3"],
                  S1 |-> [a |-> "2", b |-> "3", c |-> "1"],
                  S2 |-> [a |-> "2", b |-> "3", c |-> "1"]])

\* the automata with the transitions of the doctest, the outputs of S0 and
\* S1 of the doctest and every choice of the outputs of S2
CyclicAutomata ==
    {MakeAutomata(<<"a", "b", "c">>, "S0", TargetStates, CyclicSkeleton,
                  [S0 |-> [a |-> "1", b |-> "2", c |-> "3"],
                   S1 |-> [a |-> "2", b |-> "3", c |-> "1"],
                   S2 |-> lambda]) :
        lambda \in [{"a", "b", "c"} -> {"1", "2", "3"}]}

\* LSTAR(input_vocabulary, kbase, max_states = 5) of the doctest
CyclicInit ==
    /\ input_letters = <<"a", "b", "c">>
    /\ max_states = DoctestMaxStates
    /\ teacher \in {[automata |-> A, faulty |-> {}] : A \in CyclicAutomata}
    /\ pc = "initialize"
    /\ InitTable

CyclicSpec == CyclicInit /\ [][LearnNext]_vars

\* the automaton replays every input word of at most n letters as the
\* target answers it
ReplaysTarget(automata, n) ==
    \A word \in WordsUpTo(n) :
        /\ play_query(automata, word).exc = NoExc
        /\ play_query(automata, word).output_word = submit_word(teacher.automata, word)

\* C21: for the three-state target of the doctest of LSTAR (letters a, b,
\* c), learn() with max_states = 5 and the Wp-method returns an automaton
\* of exactly three states that replays as the target every input word of
\* at most six letters.
C21_DoctestTargetLearned ==
    (pc = "returned" /\ teacher.automata = CyclicTarget)
        => /\ hypothesis.exc = NoExc
           /\ Len(get_states(hypothesis)) = 3
           /\ Cardinality(DOMAIN hypothesis.transitions) = 3
           /\ ReplaysTarget(hypothesis, MaxReplayLen)

\* learn() returned for the target of the doctest after a counterexample
C21_Witness ==
    /\ pc = "returned"
    /\ teacher.automata = CyclicTarget
    /\ CyclicTarget \in CyclicAutomata
    /\ Len(get_states(hypothesis)) = 3
    /\ Len(S) > 3


\* ------------------------------------------------------------------------
\* RandomWalkMethod.find_counterexample, one iteration of its loop at a time
\* The variable op holds the variables of the call: max_steps,
\* restart_probability, i_step, the walk w, and the number of calls of
\* __check_equivalence made (queries).
\* ------------------------------------------------------------------------

\* restart_probability: 0, 1, or a number between them
RestartProbabilities == {"0", "between", "1"}

\* the outcomes of "random.random() < self.restart_probability",
\* random.random() being in [0, 1)
RestartOutcomes(restart_probability) ==
    IF restart_probability = "0" THEN {FALSE}
    ELSE IF restart_probability = "1" THEN {TRUE}
    ELSE BOOLEAN

\* RandomWalkMethod(kb, input_letters, max_steps, restart_probability)
\* .find_counterexample(hypothesis), up to the loop
WalkStart ==
    /\ pc = "find_counterexample"
    /\ \E max_steps \in 0..MaxWalkSteps : \E restart_probability \in RestartProbabilities :
          op' = [name |-> "random_walk", max_steps |-> max_steps,
                 restart_probability |-> restart_probability, i_step |-> 0,
                 w |-> StartWalk(hypothesis), queries |-> 0]
    /\ pc' = "walk"
    /\ nops' = nops + 1
    /\ UNCHANGED <<input_letters, max_states, teacher, initialized, D, S, SA, ot_content,
                   nodes, trace, exc, hypothesis, counterexample>>

\* the end of an iteration: the try clause around __walk gave the walk w,
\* and i_step += 1
Walked(w) ==
    /\ op' = [op EXCEPT !.w = w, !.i_step = @ + 1]
    /\ pc' = "walk"
    /\ UNCHANGED <<initialized, D, S, SA, ot_content, nodes, trace, exc, counterexample>>

\* a mutant of the iteration that restarts: i_step stays as it is
WalkChecked_step_not_counted(r, pick) ==
    /\ Becomes(r)
    /\ IF r.exc # NoExc
       THEN /\ pc' = "raised"
            /\ op' = [op EXCEPT !.queries = @ + 1]
            /\ UNCHANGED counterexample
       ELSE IF r.out # op.w.hypothesis_output_word
       THEN /\ pc' = "fix_hypothesis"
            /\ op' = [op EXCEPT !.queries = @ + 1]
            /\ counterexample' = [input_word |-> op.w.input_word, output_word |-> r.out]
       ELSE /\ pc' = "walk"
            /\ op' = [op EXCEPT !.queries = @ + 1,
                                !.w = walk(hypothesis, StartWalk(hypothesis), pick)]
            /\ UNCHANGED counterexample

\* an iteration that restarts: __check_equivalence ended in the program
\* state r, and its query is returned, or the walk starts again
WalkChecked(r, pick) ==
    /\ Becomes(r)
    /\ IF r.exc # NoExc
       THEN /\ pc' = "raised"
            /\ op' = [op EXCEPT !.queries = @ + 1]
            /\ UNCHANGED counterexample
       ELSE IF r.out # op.w.hypothesis_output_word
       THEN /\ pc' = "fix_hypothesis"
            /\ op' = [op EXCEPT !.queries = @ + 1]
            /\ counterexample' = [input_word |-> op.w.input_word, output_word |-> r.out]
       ELSE /\ pc' = "walk"
            /\ op' = [op EXCEPT !.queries = @ + 1, !.i_step = @ + 1,
                                !.w = walk(hypothesis, StartWalk(hypothesis), pick)]
            /\ UNCHANGED counterexample

\* one iteration of the loop "while i_step < self.max_steps"
WalkStep ==
    /\ pc = "walk"
    /\ op.i_step < op.max_steps
    /\ \E restart \in RestartOutcomes(op.restart_probability) :
       \E pick \in 1..Len(input_letters) :
          IF op.w.first_step_after_restart
          THEN Walked(walk(hypothesis, [op.w EXCEPT !.first_step_after_restart = FALSE], pick))
          ELSE IF op.w.force_restart \/ restart
          THEN WalkChecked(resolve_query(teacher, Cur, op.w.input_word), pick)
          ELSE Walked(walk(hypothesis, op.w, pick))
    /\ nops' = nops + 1
    /\ UNCHANGED <<input_letters, max_states, teacher, hypothesis>>

\* the end of the loop: find_counterexample returns None
WalkEnd ==
    /\ pc = "walk"
    /\ ~(op.i_step < op.max_steps)
    /\ pc' = "returned"
    /\ counterexample' = NoCounterexample
    /\ nops' = nops + 1
    /\ UNCHANGED <<input_letters, max_states, teacher, initialized, D, S, SA, ot_content,
                   nodes, trace, exc, op, hypothesis>>

WalkNext ==
    \/ LearnInitialize
    \/ Stabilise
    \/ LearnBuildHypothesis
    \/ WalkStart
    \/ WalkStep
    \/ WalkEnd

WalkSpec == LearnInit /\ [][WalkNext]_vars


\* the call of find_counterexample of the random walk is running or over
InWalk == op.name = "random_walk"

\* the step is an iteration of the loop that goes on to the next one
NextIteration ==
    /\ pc' = "walk"
    /\ op'.i_step = op.i_step + 1
    /\ op'.max_steps = op.max_steps
    /\ op'.queries \in {op.queries, op.queries + 1}

\* the step returns a query, or ends with the exception of resolve_query
EarlyReturn ==
    \/ pc' = "fix_hypothesis" /\ counterexample' # NoCounterexample
                              /\ op'.queries = op.queries + 1
    \/ pc' = "raised" /\ exc' # NoExc

\* the step returns None after max_steps iterations
LateReturn ==
    /\ pc' = "returned"
    /\ op.i_step = op.max_steps
    /\ counterexample' = NoCounterexample

\* C22: for every hypothesis, every max_steps and every
\* restart_probability in [0, 1] the random walk makes at most max_steps
\* iterations of its loop and then returns None, unless it has returned a
\* counterexample before: every iteration that does not return counts one
\* step more, so the loop never goes on for ever; with restart_probability
\* 1.0 and max_steps 1 it submits no query or one.
C22_WalkEndsAfterMaxSteps ==
    /\ [](InWalk => /\ op.i_step <= op.max_steps
                    /\ op.queries <= op.i_step + 1
                    /\ (op.max_steps = 1 /\ op.restart_probability = "1")
                          => op.queries <= 1)
    /\ [][pc = "walk" => (NextIteration \/ EarlyReturn \/ LateReturn)]_vars

\* the walk returned None after max_steps iterations, two of which
\* restarted and submitted a query
C22_Witness ==
    /\ InWalk
    /\ pc = "returned"
    /\ op.max_steps = MaxWalkSteps
    /\ op.i_step = op.max_steps
    /\ op.queries = 2
    /\ counterexample = NoCounterexample

\* ---------------------------------------------------------------------
\* LSTAR.learn with a caller that asks the learner to stop
\* ---------------------------------------------------------------------

\* a caller asks the learner to stop while learn is at the top of its loop
\* "while not f_hypothesis_is_valid", after fix_hypothesis and before the
\* next build_hypothesis. The class LSTAR has the methods __init__, learn,
\* fix_hypothesis, build_hypothesis, find_counterexample and private ones,
\* and no method stop: the call raises AttributeError in the caller and
\* changes no field of the learner. op records that the call was made.
StopRequested ==
    /\ pc = "stabilise"
    /\ op.name = "fix_hypothesis"
    /\ op' = [name |-> "stop"]
    /\ UNCHANGED <<input_letters, max_states, teacher, initialized, D, S, SA, ot_content,
                   nodes, trace, exc, hypothesis, pc, counterexample, nops>>

StopNext ==
    \/ LearnInitialize
    \/ Stabilise
    \/ LearnBuildHypothesis
    \/ LearnFindCounterexample
    \/ LearnFixHypothesis
    \/ StopRequested

StopSpec == LearnInit /\ [][StopNext]_vars

\* C23: once a caller has asked the learner to stop, the next iteration of
\* the loop of learn sees the request at the top of the loop, and learn
\* returns the most recent hypothesis without another equivalence query:
\* the step of learn that follows a request made at the top of the loop
\* returns, with the hypothesis and the calls of the teacher as they were.
C23_StopReturnsHypothesis ==
    [][op.name = "stop" => /\ pc' = "returned"
                           /\ hypothesis' = hypothesis
                           /\ trace' = trace]_vars

\* ---------------------------------------------------------------------
\* FakeActiveKnowledgeBase.submit_word on automata that lack transitions
\* ---------------------------------------------------------------------

\* the longest word submitted
MaxSubmitLen == 3

\* the automata A without the transitions (state, input letter) of removed
WithoutTransitions(A, removed) ==
    [A EXCEPT !.transitions =
        [q \in DOMAIN A.transitions |->
            LET kept(t) == <<q, t.input_letter>> \notin removed
            IN SelectSeq(A.transitions[q], kept)]]

\* the automaton of the doctests without some of the transitions of the
\* states S0, S1 and S3
PartialAutomata ==
    {WithoutTransitions(FourStates, removed) :
        removed \in SUBSET ({"S0", "S1", "S3"} \X {"a", "b"})}

SubmitInit ==
    /\ input_letters = <<"a", "b">>
    /\ max_states = 0
    /\ teacher \in {[automata |-> A, faulty |-> {}] : A \in PartialAutomata}
    /\ pc = "knowledge_base"
    /\ InitTable

\* FakeActiveKnowledgeBase(automata).submit_word(word)
SubmitWord ==
    /\ \E word \in WordsUpTo(MaxSubmitLen) :
          op' = [name |-> "submit_word", input_word |-> word,
                 output_word |-> submit_word(teacher.automata, word)]
    /\ UNCHANGED <<input_letters, max_states, teacher, initialized, D, S, SA, ot_content,
                   nodes, trace, exc, hypothesis, pc, counterexample, nops>>

SubmitNext == SubmitWord

SubmitSpec == SubmitInit /\ [][SubmitNext]_vars

\* C24: the word submit_word returns is as long as the word submitted, for
\* every word, also when the state has no transition for a letter of the
\* word and when that letter is the first one.
C24_OutputAsLongAsInput ==
    op.name = "submit_word" => Len(op.output_word) = Len(op.input_word)

\* ---------------------------------------------------------------------
\* KnowledgeTree with a cache file: add_word, get_output_word, load_cache
\* The tree is made with a cache_file_path and fewer than 100 words are
\* added to it, so that add_word does not write the cache.
\* ---------------------------------------------------------------------

\* Letter.serialize: the stable form of a letter in the cache file
serialize_letter(letter) == [symbols |-> letter]

\* Letter.deserialize: the letter a stable form was made from
deserialize_letter(data) == data.symbols

\* KnowledgeTree.write_cache: the content of the file, the serialised nodes
\* with their children in the order of the lists
write_cache(tree) ==
    [k \in 1..Len(tree) |->
        [parent |-> tree[k].parent,
         input_letter |-> serialize_letter(tree[k].input_letter),
         output_letter |-> serialize_letter(tree[k].output_letter)]]

\* KnowledgeTree.load_cache on a file of content json_content: every root
\* of the file, deserialised with its children, is appended to self.roots
load_cache(tree, json_content) ==
    tree \o [k \in 1..Len(json_content) |->
                [parent |-> IF json_content[k].parent = 0 THEN 0
                            ELSE Len(tree) + json_content[k].parent,
                 input_letter |-> deserialize_letter(json_content[k].input_letter),
                 output_letter |-> deserialize_letter(json_content[k].output_letter)]]

\* the trees made of at most two words
SmallTrees ==
    LET one == {add_word(<< >>, p[1], p[2]).nodes : p \in TreePairs}
    IN {<< >>} \cup one
       \cup UNION {{add_word(t, p[1], p[2]).nodes : p \in TreePairs} : t \in one}

\* the cache files a knowledge tree has written
CacheFiles == {write_cache(t) : t \in SmallTrees}

\* tree.load_cache(possible_letters), the file holding json_content
TreeLoadCache ==
    /\ pc = "knowledge_tree"
    /\ nops < MaxTreeOps
    /\ \E json_content \in CacheFiles :
          /\ nodes' = load_cache(nodes, json_content)
          /\ op' = [name |-> "load_cache", json_content |-> json_content]
    /\ exc' = NoExc
    /\ nops' = nops + 1
    /\ UNCHANGED <<input_letters, max_states, teacher, initialized, D, S, SA, ot_content,
                   trace, hypothesis, counterexample, pc>>

CacheNext ==
    \/ TreeAddWord
    \/ TreeGetOutputWord
    \/ TreeLoadCache

CacheSpec == TreeInit /\ [][CacheNext]_vars

\* C25: after any sequence of add_word, which may fail, and load_cache the
\* tree has at most one root for a first input letter, and every node has
\* at most one child for an input letter.
C25_OneNodePerInputLetter ==
    \A i, j \in 1..Len(nodes) :
        (i # j /\ nodes[i].parent = nodes[j].parent)
            => nodes[i].input_letter # nodes[j].input_letter

\* ---------------------------------------------------------------------
\* KnowledgeBase.resolve_query over a teacher that answers as it likes
\* ---------------------------------------------------------------------

\* the words submit_word of a teacher can return for a word: the letters of
\* a Word as long as the word, an EmptyLetter standing for a letter the
\* target did not answer
TeacherAnswers(word) ==
    {answer \in LettersUpTo(OutputLetterSet \cup {EmptyLetter}, MaxQueryLen) :
        Len(answer) = Len(word)}

\* ActiveKnowledgeBase._execute_word, submit_word returning answer
execute_answer(m, word, answer) ==
    [m EXCEPT !.trace = m.trace \o <<(<<"start_target">>), <<"submit_word", word>>,
                                     (<<"stop_target">>)>>,
              !.out = answer]

\* KnowledgeBase._resolve_word after get_output_word, which gave cached
resolve_answer(m, word, answer, cached) ==
    IF cached # NoWord THEN [m EXCEPT !.out = cached]
    ELSE ExecutedWord(execute_answer(m, word, answer), word)

AnswerInit ==
    /\ input_letters = <<"a", "b">>
    /\ max_states = 0
    /\ teacher = [automata |-> None, faulty |-> {}]
    /\ pc = "knowledge_base"
    /\ InitTable

\* kb.resolve_query(OutputQuery(input_word)), the teacher answering answer
\* when the word is submitted to it
AnswerResolveQuery ==
    /\ nops < MaxQueries
    /\ \E input_word \in WordsUpTo(MaxQueryLen) :
          \E answer \in TeacherAnswers(input_word) :
              Resolved(input_word,
                       resolve_answer(Cur, input_word, answer,
                                      get_output_word(nodes, input_word)))
    /\ nops' = nops + 1
    /\ UNCHANGED <<input_letters, max_states, teacher, hypothesis, counterexample, pc>>

AnswerNext == AnswerResolveQuery

AnswerSpec == AnswerInit /\ [][AnswerNext]_vars

\* the outputs of two resolved queries are the same on the first k letters
AgreeUpTo(o1, o2, k) == Len(o1) >= k /\ Len(o2) >= k /\ Prefix(o1, k) = Prefix(o2, k)

\* C26: an input word resolves to the same output word as long as the
\* knowledge base lives, and two resolved queries whose input words share a
\* prefix have the same output letters on this prefix, whatever the teacher
\* answers: so it is of two queries resolved one after the other.
C26_ResolvedOutputsAgree ==
    [][(/\ op.name = "resolve_query" /\ op.output_word # NoWord
        /\ op'.name = "resolve_query" /\ op'.output_word # NoWord)
          => \A k \in 1..MaxQueryLen :
                (/\ k <= Len(op.input_word) /\ k <= Len(op'.input_word)
                 /\ Prefix(op.input_word, k) = Prefix(op'.input_word, k))
                   => AgreeUpTo(op.output_word, op'.output_word, k)]_vars

\* ---------------------------------------------------------------------
\* the order of the membership queries
\* ---------------------------------------------------------------------

\* the calls of the teacher after the make_consistent of an iteration of
\* the loop of LSTAR.build_hypothesis, one for every inconsistency that
\* find_inconsistency can return on the table closed
TracesOfMakeConsistent(closed) ==
    {make_consistent(teacher, closed, inconsistency).trace :
        inconsistency \in find_inconsistency(closed)}

\* C27: the words submitted to the teacher by close_table, make_consistent
\* (with the inconsistency find_inconsistency chose) and add_counterexample
\* follow from the order of D, S, SA and the input letters alone, so two runs
\* of the learner on the same teacher submit the same words in the same
\* order: from a state of the learner an iteration of the loop of
\* LSTAR.build_hypothesis can submit one sequence of words only.
C27_QueryOrderDetermined ==
    pc = "stabilise"
        => Cardinality(TracesOfMakeConsistent(IF is_closed(Cur) THEN Cur
                                              ELSE close_table(teacher, Cur))) <= 1

\* ---------------------------------------------------------------------
\* ObservationTable.build_hypothesis called on any table
\* ---------------------------------------------------------------------

\* ot.build_hypothesis(), whatever the table: the method has no
\* precondition in the code
BuildHypothesisOfTable ==
    /\ nops < MaxOps
    /\ hypothesis' \in {build_hypothesis(Cur, rep) : rep \in RepChoices(Cur)}
    /\ exc' = hypothesis'.exc
    /\ op' = [name |-> "build_hypothesis"]
    /\ nops' = nops + 1
    /\ UNCHANGED <<input_letters, max_states, teacher, initialized, D, S, SA, ot_content,
                   nodes, trace, counterexample, pc>>

BuildNext ==
    \/ Initialize
    \/ CloseTable
    \/ MakeConsistent
    \/ AddCounterexample
    \/ BuildHypothesisOfTable

BuildSpec == Init /\ [][BuildNext]_vars

\* the word has, after some input letter, a row that no word of S has
LeavesS(word) ==
    \E letter \in InputLetterSet :
        \A j \in 1..Len(S) : RowOf(WordAdd(word, <<letter>>)) # RowOf(S[j])

\* some class of rows of S has no word to represent it but a word that
\* leaves S
SomeClassLeavesS ==
    \E i \in 1..Len(S) :
        \A j \in 1..Len(S) : RowOf(S[j]) = RowOf(S[i]) => LeavesS(S[j])

\* the empty word is in S
EpsilonInS == \E i \in 1..Len(S) : S[i] = EmptyWord

\* the claim as it was stated: build_hypothesis raises on every table that
\* is not closed, and on no table that is closed and consistent
C28_RaisesIffNotClosed ==
    op.name = "build_hypothesis"
        => /\ ~ClosedTable => exc # NoExc
           /\ (ClosedTable /\ ConsistentTable) => exc = NoExc

\* C28: build_hypothesis raises when no class of rows of S holds the empty
\* word and when the row of a representative followed by a letter is the
\* row of no class; so it raises on every consistent table that is not
\* closed, and it does not raise on a closed and consistent table that
\* holds the empty word in S.
C28_RaisesOnConsistentNotClosed ==
    op.name = "build_hypothesis"
        => /\ ~EpsilonInS => exc # NoExc
           /\ SomeClassLeavesS => exc # NoExc
           /\ (ConsistentTable /\ ~ClosedTable) => exc # NoExc
           /\ (EpsilonInS /\ ClosedTable /\ ConsistentTable) => exc = NoExc

\* build_hypothesis raised on a consistent table that is not closed
C28_Witness ==
    /\ op.name = "build_hypothesis"
    /\ EpsilonInS /\ ConsistentTable /\ ~ClosedTable
    /\ exc = "CannotFindState"

\* ---------------------------------------------------------------------
\* ObservationTable.initialize called again
\* ---------------------------------------------------------------------

\* C29: initialize on a table that is initialised raises, submits no
\* membership query and leaves D, S, SA and the cells as they were.
C29_SecondInitializeRaises ==
    [][(initialized /\ op'.name = "initialize" /\ nops' # nops)
          => /\ exc' = "AlreadyInitialized"
             /\ trace' = trace /\ nodes' = nodes
             /\ D' = D /\ S' = S /\ SA' = SA /\ ot_content' = ot_content
             /\ initialized']_vars

\* initialize raised on a table that close_table or add_counterexample
\* had grown
C29_Witness ==
    /\ op.name = "initialize"
    /\ exc = "AlreadyInitialized"
    /\ Len(S) > 1

\* ---------------------------------------------------------------------
\* the set P of the Wp-method
\* ---------------------------------------------------------------------

RECURSIVE ReachableStates(_, _)
\* the states of the hypothesis reached from the states of the set
ReachableStates(hyp, states) ==
    LET next == states \cup {hyp.transitions[q][i].output_state :
                                q \in states, i \in 1..Len(input_letters)}
    IN IF next = states THEN states ELSE ReachableStates(hyp, next)

\* the state of the hypothesis before the last letter of the word is played
StateBeforeLast(hyp, word) ==
    IF Len(word) = 1 THEN hyp.initial_state
    ELSE LET visited == play_query(hyp, Prefix(word, Len(word) - 1)).visited_states
         IN visited[Len(visited)]

\* the list P of words takes every transition of the hypothesis
TransitionCover(hyp, P) ==
    \A q \in ReachableStates(hyp, {hyp.initial_state}) :
        \A letter \in InputLetterSet :
            \E k \in 1..Len(P) :
                /\ P[k] # EmptyWord
                /\ last_letter(P[k]) = letter
                /\ StateBeforeLast(hyp, P[k]) = q

\* C30: the set P the Wp-method computes for a hypothesis built from a
\* closed and consistent table is a transition cover: for every state of
\* the hypothesis and every input letter, a word of P reaches the state and
\* ends with the letter.
C30_PIsTransitionCover ==
    (hypothesis # NoHypothesis /\ hypothesis.exc = NoExc)
        => TransitionCover(hypothesis, computesP(hypothesis))

\* P covers the transitions of a hypothesis of three states or more
C30_Witness ==
    /\ hypothesis # NoHypothesis /\ hypothesis.exc = NoExc
    /\ Cardinality(ReachableStates(hypothesis, {hypothesis.initial_state})) >= 3
    /\ TransitionCover(hypothesis, computesP(hypothesis))

\* ---------------------------------------------------------------------
\* the characterisation set W of the Wp-method
\* LSTAR.build_hypothesis and fix_hypothesis on targets of three states
\* over three input letters, max_states being the number of their states
\* ---------------------------------------------------------------------

\* the value of max_states given to LSTAR for the targets of three states
ResetMaxStates == 3

\* the transitions of the targets: c goes on to the next state, a and b go
\* back to the initial state
ResetSkeleton ==
    [S0 |-> [a |-> "S0", b |-> "S0", c |-> "S1"],
     S1 |-> [a |-> "S0", b |-> "S0", c |-> "S2"],
     S2 |-> [a |-> "S0", b |-> "S0", c |-> "S2"]]

\* the targets: S0 answers 0 to every letter, S1 answers 0 to c, and S1 and
\* S2 answer as they like to the other letters
ResetAutomata ==
    {MakeAutomata(<<"a", "b", "c">>, "S0", TargetStates, ResetSkeleton,
                  [S0 |-> [a |-> "0", b |-> "0", c |-> "0"],
                   S1 |-> [a |-> lambda1, b |-> "0", c |-> "0"],
                   S2 |-> lambda2]) :
        lambda1 \in OutputLetterSet, lambda2 \in [{"a", "b", "c"} -> OutputLetterSet]}

\* LSTAR(input_vocabulary, kbase, max_states = 3)
ResetInit ==
    /\ input_letters = <<"a", "b", "c">>
    /\ max_states = ResetMaxStates
    /\ teacher \in {[automata |-> A, faulty |-> {}] : A \in ResetAutomata}
    /\ pc = "initialize"
    /\ InitTable

ResetSpec == ResetInit /\ [][FixNext]_vars

\* the word of W for the couple of states tells the states apart
Distinguishes(hyp, w, couple) ==
    play_word(hyp, w, couple[1]).output_word # play_word(hyp, w, couple[2]).output_word

\* every word of W tells apart the two states it was computed for
WDistinguishes(hyp, couples) ==
    \A k \in 1..Len(couples) :
        Distinguishes(hyp, compute_distinguishable_string(hyp, couples[k]), couples[k])

\* C31: for every hypothesis built from a closed and consistent table and
\* every pair of distinct states of it, the word the Wp-method puts in W
\* for the pair gives another output word from one state than from the
\* other.
C31_WDistinguishesStates ==
    (hypothesis # NoHypothesis /\ hypothesis.exc = NoExc)
        => WDistinguishes(hypothesis, Combinations2(get_states(hypothesis)))

\* ---------------------------------------------------------------------
\* the set Z of the Wp-method
\* ---------------------------------------------------------------------

\* the words of a list
WordsOf(list) == {list[k] : k \in 1..Len(list)}

\* the words x.a.w for x in X, a an input letter and w in W
ProductXW(X, W) ==
    {WordAdd(WordAdd(x, <<a>>), w) : x \in X, a \in InputLetterSet, w \in W}

RECURSIVE UnionOfX(_, _, _, _)
\* the union of X^i, ..., X^v, X being X^(i-1)
UnionOfX(W, X, i, v) ==
    IF i > v THEN {}
    ELSE ProductXW(X, W) \cup UnionOfX(W, ProductXW(X, W), i + 1, v)

\* the list W find_counterexample computes for the hypothesis
WOf(hyp, couples) ==
    [k \in 1..Len(couples) |-> compute_distinguishable_string(hyp, couples[k])]

\* the list Z holds the words of W, X^1, ..., X^v, every word once
ZAsSpecified(hyp, W, Z) ==
    LET n == Len(get_states(hyp))
        v == IF max_states - n < 0 THEN 0 ELSE max_states - n
    IN /\ WordsOf(Z) = WordsOf(W) \cup UnionOfX(WordsOf(W), WordsOf(W), 1, v)
       /\ \A j, k \in 1..Len(Z) : Z[j] = Z[k] => j = k

\* Z of the hypothesis and of its W is as specified
ZOfW(hyp, W) == ZAsSpecified(hyp, W, computesZ(hyp, W))

\* C32: the Wp-method computes Z = W, X^1, ..., X^v with v = max(0, m - n),
\* X^0 = W and X^(i+1) the words x.a.w for x in X^i, a an input letter and
\* w in W, and no two queries of Z have the same input word.
C32_ZIsUnionOfX ==
    (hypothesis # NoHypothesis /\ hypothesis.exc = NoExc)
        => ZOfW(hypothesis, WOf(hypothesis, Combinations2(get_states(hypothesis))))

\* ---------------------------------------------------------------------
\* the representatives of the states
\* ---------------------------------------------------------------------

RECURSIVE StatesWithin(_, _, _)
\* the states of the hypothesis reached from the states of the set by
\* words of at most k letters
StatesWithin(hyp, states, k) ==
    IF k <= 0 THEN states
    ELSE StatesWithin(hyp,
                      states \cup {hyp.transitions[q][i].output_state :
                                      q \in states, i \in 1..Len(input_letters)},
                      k - 1)

\* the state of the hypothesis the word leads to from the initial state
StateReached(hyp, word) ==
    IF word = << >> THEN hyp.initial_state
    ELSE LET visited == play_word(hyp, word, hyp.initial_state).visited_states
         IN visited[Len(visited)]

\* every state has a representative, which leads to it and is of the
\* shortest length possible
ShortestRepresentatives(hyp, reps) ==
    /\ DOMAIN reps = ReachableStates(hyp, {hyp.initial_state})
    /\ reps[hyp.initial_state] = << >>
    /\ \A q \in DOMAIN reps :
          /\ StateReached(hyp, reps[q]) = q
          /\ Len(reps[q]) > 0 =>
                q \notin StatesWithin(hyp, {hyp.initial_state}, Len(reps[q]) - 1)

\* C33: get_representatives gives every state of the hypothesis a word that
\* leads from the initial state to it and is of the shortest length
\* possible, the empty word for the initial state.
C33_RepresentativesAreShortest ==
    (hypothesis # NoHypothesis /\ hypothesis.exc = NoExc)
        => ShortestRepresentatives(hypothesis, get_representatives(hypothesis))

\* ---------------------------------------------------------------------
\* the inconsistency find_inconsistency returns
\* ---------------------------------------------------------------------

\* the value is an inconsistency of the table: two distinct words of S with
\* the same row, an input letter and a word of D at which the cells of the
\* two words followed by the letter differ
IsInconsistency(x) ==
    /\ x.pair[1] # x.pair[2]
    /\ x.pair[1] \in WordsOf(S)
    /\ x.pair[2] \in WordsOf(S)
    /\ RowOf(x.pair[1]) = RowOf(x.pair[2])
    /\ x.suffix \in InputLetterSet
    /\ x.detail \in WordsOf(D)
    /\ Cell(Cur, x.detail, WordAdd(x.pair[1], <<x.suffix>>))
           # Cell(Cur, x.detail, WordAdd(x.pair[2], <<x.suffix>>))

\* the values find_inconsistency can return are None on a consistent table
\* only, and inconsistencies of the table otherwise
ReturnsInconsistency(found) ==
    /\ (found = {}) <=> ConsistentTable
    /\ \A x \in found : IsInconsistency(x)

\* C34: find_inconsistency returns None if and only if the table is
\* consistent; the value it returns otherwise names two distinct words of S
\* with the same row, an input letter and a word of D at which the cells of
\* the two words followed by the letter differ.
C34_FindsInconsistencyIffInconsistent ==
    ReturnsInconsistency(find_inconsistency(Cur))

\* the table is not consistent and only the second input letter tells two
\* words of S with the same row apart
C34_Witness ==
    /\ initialized
    /\ find_inconsistency(Cur) # {}
    /\ \A x \in find_inconsistency(Cur) : x.suffix = input_letters[2]

\* ---------------------------------------------------------------------
\* Word.__add__ on the words a caller can make
\* ---------------------------------------------------------------------

\* the longest list of letters a Word is made of
MaxWordLen == 2

\* the lists of at most MaxWordLen letters, the empty letter among them
LetterLists == {<< >>} \cup LettersUpTo(InputLetterSet \cup {EmptyLetter}, MaxWordLen)

\* Word(letters) and Word(letters, normalize=False), which keeps the list
WordValues == {Word(letters) : letters \in LetterLists} \cup LetterLists

\* no table, no tree and no hypothesis: only words
WordInit ==
    /\ input_letters = <<"a", "b">>
    /\ max_states = 0
    /\ teacher = [automata |-> None, faulty |-> {}]
    /\ pc = "word"
    /\ InitTable

\* u + v
WordSum ==
    /\ \E u \in WordValues : \E v \in WordValues :
          op' = [name |-> "__add__", u |-> u, v |-> v, sum |-> WordAdd(u, v)]
    /\ UNCHANGED <<input_letters, max_states, teacher, initialized, D, S, SA, ot_content,
                   nodes, trace, exc, hypothesis, pc, counterexample, nops>>

WordNext == WordSum

WordSpec == WordInit /\ [][WordNext]_vars

\* C35: the sum u + v of two words drops a leading empty letter of u and
\* nothing else: the sum of the word of the empty letter and of v is v, and
\* when u does not start with the empty letter the letters of the sum are
\* the letters of u followed by the letters of v.
C35_SumDropsOnlyLeadingEmptyLetterOfU ==
    op.name = "__add__" =>
        /\ op.u = <<EmptyLetter>> => op.sum = op.v
        /\ ~(Len(op.u) >= 1 /\ op.u[1] = EmptyLetter) =>
              /\ op.sum = op.u \o op.v
              /\ Len(op.sum) = Len(op.u) + Len(op.v)

\* ---------------------------------------------------------------------
\* the invariants of the table, faults of the teacher included
\* ---------------------------------------------------------------------

\* no word is in S and in SA
SDisjointFromSA == WordsOf(S) \cap WordsOf(SA) = {}

\* every word of S followed by an input letter is in S or in SA
ExtensionsRegistered ==
    \A i \in 1..Len(S) : \A letter \in InputLetterSet :
        WordAdd(S[i], <<letter>>) \in WordsOf(S) \cup WordsOf(SA)

\* every word of S and of SA has a cell in the column of every word of D
CellsFilled ==
    \A word \in WordsOf(S) \cup WordsOf(SA) : \A i \in 1..Len(D) :
        /\ D[i] \in DOMAIN ot_content
        /\ word \in DOMAIN ot_content[D[i]]

\* C36: after every public operation of the table, one that ended in a
\* fault because a membership query failed included, no word is in S and in
\* SA, every word of S followed by an input letter is in S or in SA, and
\* every word of S and of SA has a filled cell for every suffix of D.
C36_TableInvariantsAcrossFaults ==
    SDisjointFromSA /\ ExtensionsRegistered /\ CellsFilled

\* ---------------------------------------------------------------------
\* the hypothesis and the cells of the table it is built from
\* ---------------------------------------------------------------------

\* the last output letter of the hypothesis on the word
LastOutput(hyp, word) == last_letter(play_query(hyp, word).output_word)

\* the hypothesis answers every word of S and of SA followed by a word of D
\* as the cell of the table
ReproducesTable(hyp) ==
    \A r \in WordsOf(S) \cup WordsOf(SA) : \A i \in 1..Len(D) :
        LastOutput(hyp, WordAdd(r, D[i])) = Cell(Cur, D[i], r)

\* C37: the hypothesis built from a closed and consistent table the learner
\* reached reproduces the table: for every word r of S or SA and every d of
\* D, the last output letter of the hypothesis on r.d is the cell of r in
\* the column of d.
C37_HypothesisReproducesTable ==
    (op.name = "build_hypothesis" /\ hypothesis.exc = NoExc
        /\ ClosedTable /\ ConsistentTable)
        => ReproducesTable(hypothesis)

\* a hypothesis of three states was built from a table that a
\* counterexample and a new column had extended
C37_Witness ==
    /\ op.name = "build_hypothesis"
    /\ hypothesis.exc = NoExc
    /\ ClosedTable
    /\ ConsistentTable
    /\ Len(get_states(hypothesis)) >= 3
    /\ Len(D) > Len(input_letters)
    /\ \E i \in 1..Len(SA) : Len(SA[i]) >= 3

\* ---------------------------------------------------------------------
\* the rows of S and the states of the target
\* ---------------------------------------------------------------------

\* the number of states of the target its initial state leads to
NbReachableTargetStates ==
    Cardinality(ReachableStates(teacher.automata, {teacher.automata.initial_state}))

\* C38: in every state of a learning run against a deterministic and
\* complete Mealy target with n reachable states, the words of S have at
\* most n distinct rows, and every hypothesis has at most n states.
C38_RowsBoundedByTargetStates ==
    /\ Cardinality(RowsOfS(Cur)) <= NbReachableTargetStates
    /\ (hypothesis # NoHypothesis /\ hypothesis.exc = NoExc)
          => Len(get_states(hypothesis)) <= NbReachableTargetStates

\* the bound is reached after a counterexample: S has as many rows, and the
\* hypothesis as many states, as the target, which has more than two
C38_Witness ==
    /\ counterexample # NoCounterexample
    /\ op.name = "build_hypothesis"
    /\ hypothesis.exc = NoExc
    /\ NbReachableTargetStates > 2
    /\ Cardinality(RowsOfS(Cur)) = NbReachableTargetStates
    /\ Len(get_states(hypothesis)) = NbReachableTargetStates

\* ---------------------------------------------------------------------
\* the words registered twice
\* ---------------------------------------------------------------------

\* the faults of __add_word_in_S, __add_word_in_SA and __add_word_in_D on a
\* word that is registered already
DuplicateFaults ==
    {"AlreadyInS", "AlreadyInSA", "AlreadyInTable", "AlreadyInD", "AlreadyInContent"}

\* C39: during a learning run against a deterministic and complete target
\* no operation of the table raises the fault of a word registered twice:
\* close_table and add_counterexample insert in S and in SA no word that is
\* there already or that has cells already, and make_consistent inserts in
\* D no suffix that is there already.
C39_NoDuplicateRegistration == exc \notin DuplicateFaults

\* close_table, add_counterexample and make_consistent have all inserted
\* words: D has a new column and S has more words than the empty word and
\* the prefixes of the counterexample
C39_Witness ==
    /\ exc = NoExc
    /\ pc = "build_hypothesis"
    /\ counterexample # NoCounterexample
    /\ Len(D) > Len(input_letters)
    /\ Len(S) > 1 + Len(counterexample.input_word)

\* ---------------------------------------------------------------------
\* the Wp-method on the hypotheses of the learner
\* ---------------------------------------------------------------------

\* every test case after the first can be played on the hypothesis
Replayable(hyp, T) == \A k \in 2..Len(T) : play_query(hyp, T[k]).exc = NoExc

\* find_counterexample ended with r: no fault, and None or a query
Completes(r) ==
    /\ r.m.exc = NoExc
    /\ r.counterexample # NoCounterexample =>
          /\ Len(r.counterexample.input_word) >= 1
          /\ Len(r.counterexample.output_word) = Len(r.counterexample.input_word)

\* C40: on every hypothesis built from a closed and consistent table made
\* against a deterministic and complete target, find_counterexample of the
\* Wp-method ends without a fault and returns None or a query: every query
\* of the list T after its first, the words of W and Z among them, can be
\* played on the hypothesis.
C40_WpCompletesOnHypothesis ==
    (op.name = "build_hypothesis" /\ hypothesis.exc = NoExc)
        => /\ Replayable(hypothesis, TestSuite(hypothesis))
           /\ Completes(find_counterexample(teacher, Cur, hypothesis))

====
